---- MODULE Spec2Model ----
(***************************************************************************)
(* Reconciliation engine of sprouts-regex-tool: the segmenter              *)
(* (TableSegmentor._segment over DataParser's three strategies), the       *)
(* aligner (TableSegmentor.create_table), the analyzer (Table and          *)
(* SproutsTable) and the pattern synthesizer (RegexSearch, RegexTable).    *)
(*                                                                         *)
(* Strings are sequences of character codes that keep Python's character   *)
(* order: '!' = -3, '-' = -2, '/' = -1, the digits '0'..'9' = 0..9,        *)
(* 'a' = 10 and '|' = 11.  A token is such a string; a cell of a table is  *)
(* a token or one of the three labels.  The other characters (of labels    *)
(* of the analyzer and of patterns) have the codes from 12 on; the         *)
(* strings that hold them are never put in order.                          *)
(***************************************************************************)
EXTENDS Integers, Sequences, FiniteSets, TLC

VARIABLES op, rows, nested, headers, invoice_scan, max_rows, pc, tables, ret, frame,
          self, args, log

vars == <<op, rows, nested, headers, invoice_scan, max_rows, pc, tables, ret, frame,
          self, args, log>>

\* The state of a TableSegmentor call, and the object, arguments and log of a
\* call of the analyzer or the pattern synthesizer.
segmentorVars == <<rows, nested, headers, invoice_scan, max_rows, tables, frame>>

objectVars == <<self, args, log>>

(* ------------------------------ bounds -------------------------------- *)

MaxLen == 5

MaxShortLen == 3

MaxHeaders == 3

MaxScan == 3

(* ----------------------------- strings -------------------------------- *)

ignore == <<11>>

missing_label == <<-2, -2, -2, -2>>

scan_missing_label == <<-1, -1, -1, -1>>

incorrect_label == <<-3, -3, -3, -3>>

Labels == {missing_label, scan_missing_label, incorrect_label}

\* Python's `item in s` for two strings: item is a substring of s.
InStr(item, s) ==
  \E i \in 1..(Len(s) + 1) :
     /\ i + Len(item) - 1 <= Len(s)
     /\ SubSeq(s, i, i + Len(item) - 1) = item

\* Python's `value in row` for a list: some element equals value.
InList(value, row) == \E i \in 1..Len(row) : row[i] = value

\* Python's string order (sorted() on str): lexicographic by character.
RECURSIVE StrLess(_, _)
StrLess(a, b) ==
  IF a = <<>> THEN b # <<>>
  ELSE IF b = <<>> THEN FALSE
  ELSE IF a[1] < b[1] THEN TRUE
  ELSE IF a[1] > b[1] THEN FALSE
  ELSE StrLess(Tail(a), Tail(b))

\* int(s) succeeds: here, a non-empty string of digits.
IsNumeric(s) == s # <<>> /\ \A i \in 1..Len(s) : s[i] \in 0..9

\* int(s) for a string of digits.
RECURSIVE ToInt(_)
ToInt(s) == IF s = <<>> THEN 0 ELSE 10 * ToInt(SubSeq(s, 1, Len(s) - 1)) + s[Len(s)]

\* str(n) for n >= 0: the decimal digits without leading zeros.
RECURSIVE ToStr(_)
ToStr(n) == IF n < 10 THEN <<n>> ELSE Append(ToStr(n \div 10), n % 10)

\* A string of digits behind "-", as str() of a negative integer.
IsSigned(s) == Len(s) > 1 /\ s[1] = -2 /\ IsNumeric(Tail(s))

\* str() of a float that holds an integer: its digits and ".0".
IsFloat(s) ==
  /\ Len(s) > 2
  /\ SubSeq(s, Len(s) - 1, Len(s)) = <<13, 0>>
  /\ IsNumeric(SubSeq(s, 1, Len(s) - 2)) \/ IsSigned(SubSeq(s, 1, Len(s) - 2))

\* int(val) returns: val is a string of digits, with or without a sign, or
\* a float that holds an integer; any other string and nan raise ValueError.
int_converts(val) == IsNumeric(val) \/ IsSigned(val) \/ IsFloat(val)

\* int(val) when it returns.
int_(val) ==
  LET s == IF IsFloat(val) THEN SubSeq(val, 1, Len(val) - 2) ELSE val
  IN IF IsSigned(s) THEN 0 - ToInt(Tail(s)) ELSE ToInt(s)

\* str(n) for an integer.
str_int(n) == IF n < 0 THEN <<-2>> \o ToStr(0 - n) ELSE ToStr(n)

\* str(float(n)).
str_float(n) == str_int(n) \o <<13, 0>>

\* sorted(S) for a set of strings.
RECURSIVE SortedStr(_)
SortedStr(S) ==
  IF S = {} THEN <<>>
  ELSE LET m == CHOOSE x \in S : \A y \in S : x = y \/ StrLess(x, y)
       IN <<m>> \o SortedStr(S \ {m})

Range(s) == {s[i] : i \in 1..Len(s)}

Max(S) == CHOOSE x \in S : \A y \in S : y <= x

(* ---------------------------- DataParser ------------------------------- *)

RECURSIVE segment_separator_loop(_, _, _, _)
segment_separator_loop(data, sep, segment, segments) ==
  IF data = <<>>
  THEN IF segment # <<>> THEN Append(segments, segment) ELSE segments
  ELSE IF InStr(Head(data), sep)
       THEN segment_separator_loop(Tail(data), sep, <<>>, Append(segments, segment))
       ELSE segment_separator_loop(Tail(data), sep, Append(segment, Head(data)), segments)

segment_separator(data, sep) == segment_separator_loop(data, sep, <<>>, <<>>)

RECURSIVE segment_duplicates_loop(_, _, _, _)
segment_duplicates_loop(lines, ign, current_segment, segments) ==
  IF lines = <<>> THEN Append(segments, current_segment)
  ELSE IF InStr(Head(lines), ign)
       THEN segment_duplicates_loop(Tail(lines), ign, current_segment, segments)
       ELSE IF InList(Head(lines), current_segment)
            THEN segment_duplicates_loop(Tail(lines), ign, <<Head(lines)>>,
                                         Append(segments, current_segment))
            ELSE segment_duplicates_loop(Tail(lines), ign,
                                         Append(current_segment, Head(lines)), segments)

segment_duplicates(lines, ign) == segment_duplicates_loop(lines, ign, <<>>, <<>>)

\* One step of segment_monotonic's loop: does `value` open a new segment?
\* last_item = <<>> stands for None (and for the falsy empty string).
monotonic_break(last_item, value) ==
  /\ last_item # <<>>
  /\ \/ ~IsNumeric(value)
     \/ ~IsNumeric(last_item)
     \/ ToInt(value) < ToInt(last_item)

RECURSIVE segment_monotonic_loop(_, _, _, _)
segment_monotonic_loop(lines, last_item, current_segment, segmented_lines) ==
  IF lines = <<>> THEN Append(segmented_lines, current_segment)
  ELSE IF monotonic_break(last_item, Head(lines))
       THEN segment_monotonic_loop(Tail(lines), Head(lines), <<Head(lines)>>,
                                   Append(segmented_lines, current_segment))
       ELSE segment_monotonic_loop(Tail(lines), Head(lines),
                                   Append(current_segment, Head(lines)), segmented_lines)

segment_monotonic(lines) == segment_monotonic_loop(lines, <<>>, <<>>, <<>>)

stringify(data) == data

intify(data) == [i \in 1..Len(data) |-> ToInt(data[i])]

\* pad_list, first half: drop the removed items, then strip leading zeros by
\* int()/str() when every item is an integer.
pad_list_sanitize(data, remove) ==
  LET kept == SelectSeq(data, LAMBDA item : ~InStr(item, remove))
  IN IF \A i \in 1..Len(kept) : IsNumeric(kept[i])
     THEN LET ints == intify(kept) IN [i \in 1..Len(kept) |-> ToStr(ints[i])]
     ELSE kept

\* max() of an empty list raises ValueError.
pad_list_raises(data, remove) == pad_list_sanitize(data, remove) = <<>>

\* f"{item:0>{max_length}}": pad on the left with `pad` up to max_length.
RECURSIVE pad_left(_, _, _)
pad_left(item, pad, max_length) ==
  IF Len(item) >= max_length THEN item ELSE pad_left(<<pad>> \o item, pad, max_length)

pad_list(data, pad, remove) ==
  LET clean == pad_list_sanitize(data, remove)
      max_length == Max({Len(clean[i]) : i \in 1..Len(clean)})
  IN [i \in 1..Len(clean) |-> pad_left(clean[i], pad, max_length)]

\* str.lstrip("0")
RECURSIVE lstrip(_, _)
lstrip(item, char) ==
  IF item # <<>> /\ Head(item) = char THEN lstrip(Tail(item), char) ELSE item

remove_leading(data, char) == [i \in 1..Len(data) |-> lstrip(data[i], char)]

RECURSIVE concat(_)
concat(lists) == IF lists = <<>> THEN <<>> ELSE Head(lists) \o concat(Tail(lists))

\* flatten: a list of lists is flattened, a list of strings is returned as is.
flatten(data, isNested) == IF isNested THEN concat(data) ELSE data

\* unique_list(data, sort=True, remove): drop the items equal to a character of
\* `remove`, then sorted(set(data)).
unique_list(data, remove) ==
  SortedStr({data[i] : i \in {j \in 1..Len(data) : \A c \in 1..Len(remove) : data[j] # <<remove[c]>>}})

(* --------------------------- TableSegmentor ---------------------------- *)

\* A header is a label and a number: f"Scan {i + 1}" is [label |-> "Scan", n |-> i + 1].
Header(label, n) == [label |-> label, n |-> n]

TotalValuesHeader == Header("Total Values", 0)

\* The result of a call that may raise.
Returned(value) == [raised |-> FALSE, error |-> "", value |-> value]

Raised(error) == [raised |-> TRUE, error |-> error, value |-> <<>>]

\* select_expected with the monotonic result tried before the separator result.
select_expected_monotonic_first(separator, monotonic, duplicates, n) ==
  IF Len(monotonic) = n THEN Returned(monotonic)
  ELSE IF Len(separator) = n THEN Returned(separator)
  ELSE IF Len(duplicates) = n THEN Returned(duplicates)
  ELSE Raised("ValueError")

\* _segment, max_rows given: the first strategy, in the order separator,
\* monotonic, duplicates, whose result has max_rows groups; none raises.
select_expected(separator, monotonic, duplicates, n) ==
  IF Len(separator) = n THEN Returned(separator)
  ELSE IF Len(monotonic) = n THEN Returned(monotonic)
  ELSE IF Len(duplicates) = n THEN Returned(duplicates)
  ELSE Raised("ValueError")

\* select_default as `monotonic or separator or duplicates`.
select_default_monotonic_first(separator, monotonic, duplicates) ==
  IF monotonic # <<>> THEN monotonic
  ELSE IF separator # <<>> THEN separator
  ELSE duplicates

\* _segment, max_rows = 0: `separator or monotonic or duplicates`.
select_default(separator, monotonic, duplicates) ==
  IF separator # <<>> THEN separator
  ELSE IF monotonic # <<>> THEN monotonic
  ELSE duplicates

\* The three strategy results _segment computes (the monotonic one on the
\* zero-padded data); defined when pad_list does not raise.
strategy_duplicates(data) == segment_duplicates(data, ignore)

strategy_separator(data) == segment_separator(data, ignore)

strategy_monotonic(data) == segment_monotonic(pad_list(stringify(data), 0, ignore))

_segment(data, n) ==
  IF pad_list_raises(stringify(data), ignore) THEN Raised("ValueError")
  ELSE IF n # 0
       THEN select_expected(strategy_separator(data), strategy_monotonic(data),
                            strategy_duplicates(data), n)
       ELSE Returned(select_default(strategy_separator(data), strategy_monotonic(data),
                                    strategy_duplicates(data)))

\* get_headers(data, offset): "Shipment 1" .. "Shipment (data - offset)".
get_headers(header_count, offset) ==
  [i \in 1..(IF header_count - offset > 0 THEN header_count - offset ELSE 0)
     |-> Header("Shipment", i)]

\* create_table, lines 215-219: an invoice_scan out of range becomes 0.
effective_scan(scan, group_count) ==
  IF scan < 0 \/ scan > group_count THEN 0 ELSE scan

\* create_table, lines 246-252.
value_in_scan(value, scan_column_rows, scan) ==
  IF scan # 0 THEN InList(value, concat(scan_column_rows)) ELSE TRUE

\* create_table, lines 255-256.
value_in_rows(value, other_rows) == InList(value, concat(other_rows))

\* scan_cell with the missing label where the invalid label belongs.
scan_cell_never_invalid(value, row, in_scan) ==
  IF ~InList(value, row) THEN missing_label ELSE value

\* create_table, lines 261-270: the cell of one scan column; in_scan is the
\* flag as the loop holds it when it reaches this column.
scan_cell(value, row, in_scan) ==
  IF ~InList(value, row) /\ ~in_scan THEN incorrect_label
  ELSE IF ~InList(value, row) /\ in_scan THEN missing_label
  ELSE value

\* create_table, lines 260-270: the loop over the scan columns; the flag is
\* set once a column holds the value.
RECURSIVE fill_scan(_, _, _, _)
fill_scan(value, scan_column_rows, in_scan, filled) ==
  IF scan_column_rows = <<>> THEN [cells |-> filled, in_scan |-> in_scan]
  ELSE fill_scan(value, Tail(scan_column_rows),
                 in_scan \/ InList(value, Head(scan_column_rows)),
                 Append(filled, scan_cell(value, Head(scan_column_rows), in_scan)))

\* row_cell without the test of in_rows: never the absent label.
row_cell_never_absent(value, row, in_scan, in_rows) ==
  IF ~InList(value, row) /\ in_scan THEN missing_label
  ELSE IF ~InList(value, row) /\ ~in_scan THEN incorrect_label
  ELSE value

\* create_table, lines 276-290: the cell of one non-scan column.
row_cell(value, row, in_scan, in_rows) ==
  IF ~InList(value, row) /\ in_scan
  THEN IF in_rows THEN missing_label ELSE scan_missing_label
  ELSE IF ~InList(value, row) /\ ~in_scan THEN incorrect_label
  ELSE value

\* final_row without the Total Values cell at its end.
final_row_without_total(value, scan_column_rows, other_rows, scan) ==
  LET scanned == fill_scan(value, scan_column_rows,
                           value_in_scan(value, scan_column_rows, scan), <<>>)
      in_rows == value_in_rows(value, other_rows)
  IN scanned.cells \o [j \in 1..Len(other_rows) |->
                         row_cell(value, other_rows[j], scanned.in_scan, in_rows)]

\* create_table, lines 242-298: the row of the table for total_values[i].
final_row(value, scan_column_rows, other_rows, scan) ==
  LET scanned == fill_scan(value, scan_column_rows,
                           value_in_scan(value, scan_column_rows, scan), <<>>)
      in_rows == value_in_rows(value, other_rows)
      filled  == [j \in 1..Len(other_rows) |->
                    row_cell(value, other_rows[j], scanned.in_scan, in_rows)]
  IN Append(scanned.cells \o filled, value)

\* create_table, lines 302-313: the caller's headers when there are enough of
\* them, else the generated ones; "Total Values" is appended.
table_headers(given, scan, column_count) ==
  Append(IF given = <<>> \/ Len(given) < column_count
         THEN [i \in 1..scan |-> Header("Scan", i)] \o get_headers(column_count, scan)
         ELSE given,
         TotalValuesHeader)

\* gen_table: add_header for each header, then add_row for each row; add_row
\* raises ValueError for a row with more cells than there are headers.
gen_table_raises(table_rows, hdrs) ==
  \E i \in 1..Len(table_rows) : Len(table_rows[i]) > Len(hdrs)

gen_table(table_rows, hdrs) == [headers |-> hdrs, rows |-> table_rows]

NoFrame ==
  [total_values |-> <<>>, segments |-> <<>>, invoice_scan |-> 0,
   final_rows |-> <<>>, headers |-> <<>>]

\* The whole of create_table: the outcome, and its locals where it ends.
create_table(rows_arg, isNested, headers_arg, scan_arg) ==
  IF rows_arg = <<>> THEN [outcome |-> "no rows", frame |-> NoFrame]
  ELSE
  LET flat         == stringify(remove_leading(flatten(rows_arg, isNested), 0))
      total_values == unique_list(flat, ignore)
      segmented    == _segment(flat, Len(headers_arg))
  IN IF segmented.raised
     THEN [outcome |-> "ValueError",
           frame |-> [NoFrame EXCEPT !.total_values = total_values]]
     ELSE
     LET segments   == segmented.value
         scan       == effective_scan(scan_arg, Len(segments))
         scan_rows  == SubSeq(segments, 1, scan)
         other_rows == SubSeq(segments, scan + 1, Len(segments))
         final_rows == [i \in 1..Len(total_values) |->
                          final_row(total_values[i], scan_rows, other_rows, scan)]
         partial    == [total_values |-> total_values, segments |-> segments,
                        invoice_scan |-> scan, final_rows |-> final_rows,
                        headers |-> <<>>]
     IN IF final_rows = <<>>
        THEN [outcome |-> "IndexError", frame |-> partial]
        ELSE LET hdrs == table_headers(headers_arg, scan, Len(final_rows[1]) - 1)
             IN IF gen_table_raises(final_rows, hdrs)
                THEN [outcome |-> "ValueError",
                      frame |-> [partial EXCEPT !.headers = hdrs]]
                ELSE [outcome |-> "ok", frame |-> [partial EXCEPT !.headers = hdrs]]

(* ------------------------------ inputs --------------------------------- *)

SeqsUpTo(S, n) == UNION {[1..k -> S] : k \in 0..n}

\* "1", "9" and the ignore token "|".
LongAlphabet == {<<1>>, <<9>>, ignore}

\* ... and "10", "0", "09" and the non-numeric "a".
ShortAlphabet == LongAlphabet \cup {<<1, 0>>, <<0>>, <<0, 9>>, <<10>>}

FlatRows == SeqsUpTo(LongAlphabet, MaxLen) \cup SeqsUpTo(ShortAlphabet, MaxShortLen)

\* Lists of lists: [["1001","1002"],["1002","1003"]] and [["10"],["10","20"]].
NestedRows ==
  { << <<<<1, 0, 0, 1>>, <<1, 0, 0, 2>>>>, <<<<1, 0, 0, 2>>, <<1, 0, 0, 3>>>> >>,
    << <<<<1, 0>>>>, <<<<1, 0>>, <<2, 0>>>> >> }

\* The caller's own headers: "Column 1" .. "Column n"; none is <<>>.
GivenHeaders == {[i \in 1..n |-> Header("Column", i)] : n \in 0..MaxHeaders}

ScanRequests == (-1)..MaxScan

(* --------------------------- state machine ----------------------------- *)

NoReturn == Returned(<<>>)

\* No object of the analyzer or the synthesizer takes part in the call.
NoObject == [class |-> "none"]

NoArgs == [none |-> TRUE]

\* A new TableSegmentor (no tables) and the call about to be made on it.
Init ==
  /\ pc = "call"
  /\ self = NoObject
  /\ args = NoArgs
  /\ log = <<>>
  /\ tables = <<>>
  /\ ret = NoReturn
  /\ frame = NoFrame
  /\ \/ /\ op = "create_table"
        /\ \/ rows \in FlatRows /\ nested = FALSE
           \/ rows \in NestedRows /\ nested = TRUE
        /\ headers \in GivenHeaders
        /\ invoice_scan \in ScanRequests
        /\ max_rows = 0
     \/ /\ op = "_segment"
        /\ rows \in FlatRows
        /\ nested = FALSE
        /\ headers = <<>>
        /\ invoice_scan = 0
        /\ max_rows \in 0..MaxHeaders

\* TableSegmentor.create_table(rows, headers, invoice_scan), as one step.
CreateTable ==
  /\ pc = "call"
  /\ op = "create_table"
  /\ LET run == create_table(rows, nested, headers, invoice_scan)
     IN /\ frame' = run.frame
        /\ \/ /\ run.outcome = "ok"
              /\ tables' = Append(tables, gen_table(run.frame.final_rows, run.frame.headers))
              /\ pc' = "returned"
           \/ /\ run.outcome = "no rows"
              /\ tables' = tables
              /\ pc' = "returned"
           \/ /\ run.outcome \in {"ValueError", "IndexError"}
              /\ tables' = tables
              /\ pc' = "raised"
  /\ UNCHANGED <<op, rows, nested, headers, invoice_scan, max_rows, ret>>
  /\ UNCHANGED objectVars

\* TableSegmentor._segment(data, max_rows) called on its own.
Segment ==
  /\ pc = "call"
  /\ op = "_segment"
  /\ ret' = _segment(rows, max_rows)
  /\ pc' = IF ret'.raised THEN "raised" ELSE "returned"
  /\ UNCHANGED <<op, rows, nested, headers, invoice_scan, max_rows, tables, frame>>
  /\ UNCHANGED objectVars

Next == CreateTable \/ Segment

Spec == Init /\ [][Next]_vars

(* ------------------------- reading a finished call --------------------- *)

\* create_table returned and added a table.
Built == op = "create_table" /\ pc = "returned" /\ tables # <<>>

\* The table the call added, its groups, scan count and Universe.
TheTable == tables[Len(tables)]

Groups == frame.segments

ScanCount == frame.invoice_scan

Universe == frame.total_values

RowIndexes == 1..Len(TheTable.rows)

GroupIndexes == 1..Len(Groups)

\* The value of row i: the Universe value the row was built for.
RowValue(i) == Universe[i]

InSomeScanGroup(v) == \E g \in 1..ScanCount : InList(v, Groups[g])

InSomeShipmentGroup(v) == \E g \in (ScanCount + 1)..Len(Groups) : InList(v, Groups[g])

\* The cell of row i in the column of group g is absent: the group lacks the value.
Absent(i, g) == ~InList(RowValue(i), Groups[g])

(* ------------------------------ claims --------------------------------- *)

\* C1: in a table with at least one scan group, a row whose value is in no
\* scan group holds the invalid label in every absent cell, scan column or
\* shipment column.
C1_InvalidWhenNotInScan ==
  (Built /\ ScanCount >= 1) =>
    \A i \in RowIndexes :
       ~InSomeScanGroup(RowValue(i)) =>
          \A g \in GroupIndexes :
             Absent(i, g) => TheTable.rows[i][g] = incorrect_label

\* C1 witness: a row with an invalid scan cell and an invalid shipment cell.
C1_Witness ==
  /\ Built
  /\ ScanCount >= 1
  /\ \E i \in RowIndexes :
        /\ ~InSomeScanGroup(RowValue(i))
        /\ \E g \in 1..ScanCount : TheTable.rows[i][g] = incorrect_label
        /\ \E g \in (ScanCount + 1)..Len(Groups) : TheTable.rows[i][g] = incorrect_label

\* C2: for a row whose value is in a scan group, an absent shipment cell holds
\* the missing label when the value is in some shipment group and the absent
\* label when it is in none.
C2_ShipmentFill ==
  Built =>
    \A i \in RowIndexes :
       InSomeScanGroup(RowValue(i)) =>
          \A g \in (ScanCount + 1)..Len(Groups) :
             Absent(i, g) =>
                TheTable.rows[i][g] = IF InSomeShipmentGroup(RowValue(i))
                                      THEN missing_label
                                      ELSE scan_missing_label

\* C2 witness: a value of a scan group that one shipment group holds and
\* another lacks.
C2_Witness ==
  /\ Built
  /\ \E i \in RowIndexes :
        /\ InSomeScanGroup(RowValue(i))
        /\ InSomeShipmentGroup(RowValue(i))
        /\ \E g \in (ScanCount + 1)..Len(Groups) :
              Absent(i, g) /\ TheTable.rows[i][g] = missing_label

\* The tokens of the input other than ignore tokens.
InputTokens == Range(flatten(rows, nested)) \ {ignore}

\* v occurs in the group after leading-zero stripping.
OccursIn(v, group) == InList(v, remove_leading(group, 0))

\* C3: the cell at (row v, column g) holds v if and only if v occurs in group
\* g (after leading-zero stripping), else a sentinel label; so every row has a
\* group cell equal to its own value.
C3_CellIffMember ==
  Built =>
    \A i \in RowIndexes :
       /\ \A g \in GroupIndexes :
             /\ TheTable.rows[i][g] = RowValue(i) <=> OccursIn(RowValue(i), Groups[g])
             /\ TheTable.rows[i][g] # RowValue(i) => TheTable.rows[i][g] \in Labels
       /\ \E g \in GroupIndexes : TheTable.rows[i][g] = RowValue(i)

\* C4: every row of a built table has (number of groups + 1) cells, which is
\* the number of headers of the table.
C4_RowLength ==
  Built =>
    \A i \in RowIndexes :
       /\ Len(TheTable.rows[i]) = Len(Groups) + 1
       /\ Len(TheTable.rows[i]) = Len(TheTable.headers)

\* C4 witness: a built table of several rows over several groups.
C4_Witness == Built /\ Len(Groups) >= 2 /\ Len(TheTable.rows) >= 2

\* C5: the Universe holds each distinct non-ignore token once, no ignore token,
\* in ascending numeric order when every token is integer-like; the rows of the
\* table follow it.
C5_UniverseSortedNumerically ==
  Built =>
    /\ \A i, j \in 1..Len(Universe) : i # j => Universe[i] # Universe[j]
    /\ \A i \in 1..Len(Universe) : Universe[i] # ignore
    /\ Range(Universe) = {lstrip(t, 0) : t \in InputTokens}
    /\ (\A t \in InputTokens : IsNumeric(t)) =>
          \A i, j \in 1..Len(Universe) : i < j => ToInt(Universe[i]) < ToInt(Universe[j])
    /\ Len(TheTable.rows) = Len(Universe)
    /\ \A i \in RowIndexes : TheTable.rows[i][Len(TheTable.rows[i])] = Universe[i]

\* The three strategy results of a _segment call on `rows`.
SeparatorResult == strategy_separator(rows)

MonotonicResult == strategy_monotonic(rows)

DuplicateResult == strategy_duplicates(rows)

SegmentEnded == op = "_segment" /\ pc # "call"

\* How many of the three strategy results have n groups.
MatchCount(n) ==
  (IF Len(SeparatorResult) = n THEN 1 ELSE 0)
  + (IF Len(MonotonicResult) = n THEN 1 ELSE 0)
  + (IF Len(DuplicateResult) = n THEN 1 ELSE 0)

\* The data holds a token that survives pad_list's filter.
HasTokens == \E i \in 1..Len(rows) : ~InStr(rows[i], ignore)

Clamp(n, low, high) == IF n < low THEN low ELSE IF n > high THEN high ELSE n

\* C8: the effective scan count is the requested one clamped into
\* [0, number of groups].
C8_ScanCountClamped ==
  Built => ScanCount = Clamp(invoice_scan, 0, Len(Groups))

\* C9: the generated headers are Scan 1..k, Shipment k+1..n, Total Values.
C9_GeneratedHeaders ==
  (Built /\ headers = <<>>) =>
    TheTable.headers =
      [i \in 1..(Len(Groups) + 1) |->
         IF i <= ScanCount THEN Header("Scan", i)
         ELSE IF i <= Len(Groups) THEN Header("Shipment", i)
         ELSE TotalValuesHeader]

\* C10: [["1001","1002"],["1002","1003"]] with scan_count = 0 and no headers
\* gives Universe [1001, 1002, 1003] and a table of 3 rows by 3 columns whose
\* row for 1001 is [1001, sentinel, 1001].
C10_Scenario ==
  ( /\ op = "create_table" /\ pc # "call"
    /\ nested
    /\ rows = << <<<<1, 0, 0, 1>>, <<1, 0, 0, 2>>>>, <<<<1, 0, 0, 2>>, <<1, 0, 0, 3>>>> >>
    /\ invoice_scan = 0
    /\ headers = <<>> ) =>
    /\ Built
    /\ Universe = << <<1, 0, 0, 1>>, <<1, 0, 0, 2>>, <<1, 0, 0, 3>> >>
    /\ Len(TheTable.rows) = 3
    /\ Len(TheTable.headers) = 3
    /\ \A i \in RowIndexes : Len(TheTable.rows[i]) = 3
    /\ TheTable.rows[1][1] = <<1, 0, 0, 1>>
    /\ TheTable.rows[1][2] \in Labels
    /\ TheTable.rows[1][3] = <<1, 0, 0, 1>>

(* ===================== the analyzer: Table, SproutsTable =============== *)

\* A cell that holds no value (numpy's nan); str() of it is "nan".
NaN == <<-9>>

nan_str == <<12, 10, 12>>

\* The fill labels of SproutsTable: "-----", ".....", "/////" and "!!!!!".
both_label == <<-2, -2, -2, -2, -2>>

scan_cell_label == <<13, 13, 13, 13, 13>>

no_shipment_label == <<-1, -1, -1, -1, -1>>

no_scan_label == <<-3, -3, -3, -3, -3>>

\* str(val) of a cell.
str_(val) == IF val = NaN THEN nan_str ELSE val

\* What a log call records: its level and the event it reports.
LogEntry(level, event) == [level |-> level, event |-> event]

\* The outcome of a call of the analyzer: its value or error, and its log
\* entries of level info and above.
Result(value, entries) == [raised |-> FALSE, error |-> "", value |-> value, log |-> entries]

Failure(error, entries) == [raised |-> TRUE, error |-> error, value |-> <<>>, log |-> entries]

\* sorted() on a set of integers.
RECURSIVE SortedInts(_)
SortedInts(S) ==
  IF S = {} THEN <<>>
  ELSE LET m == CHOOSE x \in S : \A y \in S : x <= y
       IN <<m>> \o SortedInts(S \ {m})

\* list(s) for a set: the elements in the set's iteration order, which is one
\* order of them.
RECURSIVE list_of_set(_)
list_of_set(S) ==
  IF S = {} THEN <<>>
  ELSE LET x == CHOOSE y \in S : TRUE IN <<x>> \o list_of_set(S \ {x})

\* re.compile("|".join(re.escape(v) for v in remove_values)): the alternatives
\* of the pattern; joining no value gives the empty pattern.
filter_pattern(remove_values) == IF remove_values = <<>> THEN << <<>> >> ELSE remove_values

\* regex_pattern.match(s): some alternative is found at the start of s.
regex_match(pattern, s) ==
  \E i \in 1..Len(pattern) :
     /\ Len(pattern[i]) <= Len(s)
     /\ SubSeq(s, 1, Len(pattern[i])) = pattern[i]

\* Table.filter_list
filter_list(data, remove_values) ==
  IF data = <<>> THEN <<>>
  ELSE SelectSeq(data, LAMBDA val : ~regex_match(filter_pattern(remove_values), str_(val)))

\* Table._create_series with sort: the distinct numbers in order, as strings.
\* A section is given as the set of its numbers.
_create_series(data) ==
  LET sorted_list == SortedInts(data)
  IN [i \in 1..Len(sorted_list) |-> ToStr(sorted_list[i])]

\* Table._create_series_from_list
_create_series_from_list(data) == [i \in 1..Len(data) |-> _create_series(data[i])]

\* Table.align_series_list, the new index: the values of all series that pass
\* the filter, in numeric order.
aligned_index(data, filter_values) ==
  LET unique_values == UNION {Range(data[i]) : i \in 1..Len(data)}
      kept == filter_list(list_of_set(unique_values), filter_values)
      sorted_list == SortedInts({ToInt(kept[i]) : i \in 1..Len(kept)})
  IN [i \in 1..Len(sorted_list) |-> ToStr(sorted_list[i])]

\* Table.align_series_list: every series reindexed on the new index; a value
\* the series lacks leaves an empty cell.  The result is given by rows.
align_series_list(data, filter_values) ==
  LET index == aligned_index(data, filter_values)
  IN [r \in 1..Len(index) |->
        [c \in 1..Len(data) |-> IF InList(index[r], data[c]) THEN index[r] ELSE NaN]]

\* Table.__init__ on a file with the given sections: the DataFrame (column
\* labels, index and cells by rows) and the filter values.
Table(sections, filter_values) ==
  LET series == _create_series_from_list(sections)
  IN [df |-> [columns |-> [i \in 1..Len(sections) |-> Header("Column", i)],
              index |-> aligned_index(series, filter_values),
              values |-> align_series_list(series, filter_values)],
      filter_values |-> filter_values]

\* SproutsTable._gen_header_labels: "Scan 1" .. for range(num_scan_col), then
\* "Shipment i + 1" for i in range(num_scan_col, number of columns).
_gen_header_labels(num_scan_col, column_count) ==
  LET scans == IF num_scan_col > 0 THEN num_scan_col ELSE 0
      ships == IF column_count > num_scan_col THEN column_count - num_scan_col ELSE 0
  IN [i \in 1..scans |-> Header("Scan", i)]
     \o [j \in 1..ships |-> Header("Shipment", num_scan_col + j)]

\* Table.update_headers with a list: column i is renamed to headers[i].
update_headers(df, new_headers) ==
  [df EXCEPT !.columns = [i \in 1..Len(df.columns) |-> new_headers[i]]]

\* Table.get_header_indices for one header type: the positions (from 0) of
\* the columns whose label holds the header type.
get_header_indices(df, header) ==
  {i - 1 : i \in {j \in 1..Len(df.columns) : df.columns[j].label = header}}

\* SproutsTable._update_values on the row of `name`: the cells after the fill.
\* scan_df and shipment_df are the columns of df as _update_sub_dfs took them.
_update_values(df, num_scan_col, r) ==
  LET name == df.index[r]
      row == df.values[r]
      scan_columns == {i + 1 : i \in get_header_indices(df, "Scan")}
      shipment_columns == {i + 1 : i \in get_header_indices(df, "Shipment")}
      in_scan == \E q \in 1..Len(df.index) : \E c \in scan_columns : df.values[q][c] = name
      in_shipment ==
        \E q \in 1..Len(df.index) : \E c \in shipment_columns : df.values[q][c] = name
  IN IF num_scan_col <= 0 \/ num_scan_col >= Len(df.columns)
     THEN [c \in 1..Len(row) |-> IF row[c] # name THEN both_label ELSE row[c]]
     ELSE [c \in 1..Len(row) |->
             IF int_converts(row[c]) THEN row[c]
             ELSE IF in_scan /\ in_shipment
                  THEN IF c \in scan_columns THEN scan_cell_label ELSE both_label
             ELSE IF in_scan
                  THEN IF c \in scan_columns THEN scan_cell_label ELSE no_shipment_label
             ELSE no_scan_label]

\* SproutsTable.update_table (not hard): the headers are refreshed and
\* _update_values is applied to every row.  The result of DataFrame.apply is
\* dropped, so the fill reaches df only when the rows handed to
\* _update_values share their memory with df, which depends on the pandas
\* build: in_place says whether they do.
update_table(df, num_scan_col, in_place) ==
  LET renamed == update_headers(df, _gen_header_labels(num_scan_col, Len(df.columns)))
  IN IF in_place
     THEN [renamed EXCEPT
             !.values = [r \in 1..Len(renamed.index) |-> _update_values(renamed, num_scan_col, r)]]
     ELSE renamed

\* SproutsTable.__init__: num_scan_col is brought into 0..number of columns.
SproutsTable(sections, num_scan_col, filter_values, in_place) ==
  LET base == Table(sections, filter_values)
      column_count == Len(base.df.columns)
      count == IF num_scan_col < 0 THEN 0
               ELSE IF num_scan_col > column_count THEN column_count
               ELSE num_scan_col
  IN [class |-> "SproutsTable",
      df |-> update_table(base.df, count, in_place),
      filter_values |-> filter_values,
      num_scan_col |-> count]

\* Table.validate_indexes: the list it returns and what it logs.  The list is
\* [True] when no index or fewer than min_ indexes are given, and otherwise
\* holds one truth value per index.
validate_indexes(df, column_indexes, min_) ==
  IF column_indexes = <<>>
  THEN [check |-> <<TRUE>>, log |-> <<LogEntry("error", "no column indexes")>>]
  ELSE IF Len(column_indexes) < min_
  THEN [check |-> <<TRUE>>, log |-> <<LogEntry("error", "too few column indexes")>>]
  ELSE LET max_ == Len(df.columns)
           index_check == [i \in 1..Len(column_indexes) |->
                             0 <= column_indexes[i] /\ column_indexes[i] < max_]
       IN [check |-> index_check,
           log |-> IF ~\E i \in 1..Len(index_check) : index_check[i]
                   THEN <<LogEntry("warning", "invalid column index")>>
                   ELSE <<>>]

\* Python's `not x` for a list: the list is empty.
not_(list) == list = <<>>

\* DataFrame.iloc[:, i] accepts the positions -n .. n - 1 of n columns, the
\* negative ones counted from the end, and raises IndexError for the others.
iloc_in_bounds(df, i) == -Len(df.columns) <= i /\ i < Len(df.columns)

iloc_column(df, i) == (i % Len(df.columns)) + 1

\* df.iloc[:, column_indexes].values.flatten(): the cells row by row.
iloc_values(df, column_indexes) ==
  concat([r \in 1..Len(df.index) |->
            [k \in 1..Len(column_indexes) |->
               df.values[r][iloc_column(df, column_indexes[k])]]])

\* Table._get_values for a list of column indexes.
_get_values(table, column_indexes, unique) ==
  LET valid == validate_indexes(table.df, column_indexes, 1)
  IN IF not_(valid.check) THEN Result(<<>>, valid.log)
     ELSE IF \E k \in 1..Len(column_indexes) : ~iloc_in_bounds(table.df, column_indexes[k])
     THEN Failure("IndexError", valid.log)
     ELSE LET values == iloc_values(table.df, column_indexes)
              chosen == IF unique THEN list_of_set(Range(values)) ELSE values
          IN Result(filter_list(chosen, table.filter_values), valid.log)

\* The calls of a list comprehension or loop, made in order until one raises:
\* the error of the first that raises, or the list of the values.
calls_raise(calls) == \E k \in 1..Len(calls) : calls[k].raised

first_raised(calls) ==
  CHOOSE k \in 1..Len(calls) : calls[k].raised /\ \A j \in 1..(k - 1) : ~calls[j].raised

calls_log(calls, last) == concat([k \in 1..last |-> calls[k].log])

collect(calls) ==
  IF calls_raise(calls)
  THEN Failure(calls[first_raised(calls)].error, calls_log(calls, first_raised(calls)))
  ELSE Result([k \in 1..Len(calls) |-> calls[k].value], calls_log(calls, Len(calls)))

\* Table.get_values: a list of indexes gives the list of values, a list of
\* batches the list of the batches' lists.  nested tells which it is, as
\* isinstance(column_indexes[0], int) does, which fails on an empty list.
get_values(table, column_indexes, nested_indexes, unique) ==
  IF column_indexes = <<>> THEN Failure("IndexError", <<>>)
  ELSE IF ~nested_indexes THEN _get_values(table, column_indexes, unique)
  ELSE collect([k \in 1..Len(column_indexes) |-> _get_values(table, column_indexes[k], unique)])

batch_set_first_column(table, batch) ==
  LET got == get_values(table, <<batch[1]>>, FALSE, FALSE)
  IN IF got.raised THEN Failure(got.error, got.log) ELSE Result(Range(got.value), got.log)

\* set(self.get_values(batch)) after validate_indexes(batch, min_=2), as the
\* loops over batches of get_duplicates, get_overlap and get_differences do.
\* The loops return [] when the validation gives an empty list, which
\* validate_indexes never does.
batch_set(table, batch) ==
  LET valid == validate_indexes(table.df, batch, 2)
      got == get_values(table, batch, FALSE, FALSE)
  IN IF got.raised THEN Failure(got.error, valid.log \o got.log)
     ELSE Result(Range(got.value), valid.log \o got.log)

\* set(self.get_values(col)) for one column index.
column_set(table, col) ==
  LET got == _get_values(table, <<col>>, FALSE)
  IN IF got.raised THEN got ELSE Result(Range(got.value), got.log)

\* The sets that get_overlap and get_differences compare: one per listed
\* column, or one per batch.
operand_sets(table, column_indexes, nested_indexes) ==
  IF nested_indexes
  THEN collect([k \in 1..Len(column_indexes) |-> batch_set(table, column_indexes[k])])
  ELSE collect([k \in 1..Len(column_indexes) |-> column_set(table, column_indexes[k])])

\* set.intersection(*sets) for a non-empty list of sets.
set_intersection(sets) == {x \in sets[1] : \A k \in 1..Len(sets) : x \in sets[k]}

\* The number of items of a list equal to val.
count(list, val) == Cardinality({i \in 1..Len(list) : list[i] = val})

\* Table.get_duplicates.  The list it returns is list(set): it is kept as the
\* set of its items, as are the lists of the operations below.
get_duplicates(table, column_indexes, nested_indexes) ==
  IF column_indexes = <<>> THEN Result({}, <<>>)
  ELSE IF ~nested_indexes
  THEN LET valid == validate_indexes(table.df, column_indexes, 2)
           got == get_values(table, column_indexes, FALSE, FALSE)
       IN IF not_(valid.check) THEN Result({}, valid.log)
          ELSE IF got.raised THEN Failure(got.error, valid.log \o got.log)
          ELSE Result({val \in Range(got.value) : count(got.value, val) > 1},
                      valid.log \o got.log \o <<LogEntry("info", "duplicates")>>)
  ELSE LET batch_values == operand_sets(table, column_indexes, TRUE)
       IN IF batch_values.raised THEN batch_values
          ELSE Result(set_intersection(batch_values.value),
                      batch_values.log \o <<LogEntry("info", "duplicates")>>)

get_overlap_of_first_two(table, column_indexes, nested_indexes) ==
  LET sets == operand_sets(table, column_indexes, nested_indexes)
  IN IF column_indexes = <<>> \/ sets.raised THEN Failure("IndexError", <<>>)
     ELSE Result(sets.value[1] \cap sets.value[IF Len(sets.value) > 1 THEN 2 ELSE 1], sets.log)

\* Table.get_overlap
get_overlap(table, column_indexes, nested_indexes) ==
  IF column_indexes = <<>> THEN Failure("IndexError", <<>>)
  ELSE LET valid == IF nested_indexes THEN [check |-> <<TRUE>>, log |-> <<>>]
                    ELSE validate_indexes(table.df, column_indexes, 2)
           sets == operand_sets(table, column_indexes, nested_indexes)
       IN IF not_(valid.check) THEN Result({}, valid.log)
          ELSE IF sets.raised THEN Failure(sets.error, valid.log \o sets.log)
          ELSE LET found == set_intersection(sets.value)
               IN Result(found, valid.log \o sets.log
                                \o <<LogEntry("info", IF found # {} THEN "overlap"
                                                                    ELSE "no overlap")>>)

diff_func_symmetric(symmetric, a, b) == (a \ b) \cup (b \ a)

\* set.symmetric_difference and set.difference
diff_func(symmetric, a, b) == IF symmetric THEN (a \ b) \cup (b \ a) ELSE a \ b

RECURSIVE fold_differences_standard(_, _, _)
fold_differences_standard(symmetric, so_far, sets) ==
  IF sets = <<>> THEN so_far
  ELSE fold_differences_standard(symmetric, so_far \ Head(sets), Tail(sets))

\* for s in sets: ret = diff_func(ret, s)
RECURSIVE fold_differences(_, _, _)
fold_differences(symmetric, so_far, sets) ==
  IF sets = <<>> THEN so_far
  ELSE fold_differences(symmetric, diff_func(symmetric, so_far, Head(sets)), Tail(sets))

\* Table.get_differences
get_differences(table, column_indexes, nested_indexes, symmetric) ==
  IF column_indexes = <<>> THEN Failure("IndexError", <<>>)
  ELSE LET valid == IF nested_indexes THEN [check |-> <<TRUE>>, log |-> <<>>]
                    ELSE validate_indexes(table.df, column_indexes, 2)
           sets == operand_sets(table, column_indexes, nested_indexes)
       IN IF not_(valid.check) THEN Result({}, valid.log)
          ELSE IF sets.raised THEN Failure(sets.error, valid.log \o sets.log)
          ELSE LET found == fold_differences(symmetric, Head(sets.value), Tail(sets.value))
               IN Result(found, valid.log \o sets.log
                                \o <<LogEntry("info", IF found # {} THEN "differences"
                                                                    ELSE "no differences")>>)

\* SproutsTable._get_scan_and_ship_cols, one half: the values of the listed
\* columns whose label holds the header type; no such column gives [].
labelled_values(table, header, column_indexes) ==
  LET indices == get_header_indices(table.df, header) \cap Range(column_indexes)
  IN IF indices = {} THEN Result(<<>>, <<>>)
     ELSE get_values(table, list_of_set(indices), FALSE, FALSE)

\* The end of get_scan_overlap and get_scan_differences: the value when both
\* kinds of column gave values, and [] with its log entry when one did not.
scan_result(scan_cols, shipment_cols, value, event, log_before) ==
  IF scan_cols # <<>> /\ shipment_cols # <<>>
  THEN Result(value, log_before \o <<LogEntry("info", event)>>)
  ELSE IF scan_cols = <<>>
  THEN Result({}, log_before \o <<LogEntry("info", "no scan columns")>>)
  ELSE Result({}, log_before \o <<LogEntry("warning", "no shipment columns")>>)

\* SproutsTable.get_scan_overlap
get_scan_overlap(table, column_indexes) ==
  LET valid == validate_indexes(table.df, column_indexes, 2)
      scan_cols == labelled_values(table, "Scan", column_indexes)
      shipment_cols == labelled_values(table, "Shipment", column_indexes)
  IN IF not_(valid.check) THEN Result({}, valid.log)
     ELSE scan_result(scan_cols.value, shipment_cols.value,
                      Range(scan_cols.value) \cap Range(shipment_cols.value),
                      "scan overlap", valid.log \o scan_cols.log \o shipment_cols.log)

\* SproutsTable.get_scan_differences
get_scan_differences(table, column_indexes) ==
  LET valid == validate_indexes(table.df, column_indexes, 2)
      scan_cols == labelled_values(table, "Scan", column_indexes)
      shipment_cols == labelled_values(table, "Shipment", column_indexes)
  IN IF not_(valid.check) THEN Result({}, valid.log)
     ELSE scan_result(scan_cols.value, shipment_cols.value,
                      Range(shipment_cols.value) \ Range(scan_cols.value),
                      "scan differences", valid.log \o scan_cols.log \o shipment_cols.log)

(* ------------------------ inputs of the analyzer ----------------------- *)

MaxColumns == 3

MaxIndexes == 3

MaxBatch == 2

\* The numbers of a file: 2 and 10 ("10" starts with "1", and is before "2"
\* as a string).
TableValues == {2, 10}

\* The sections of a file, each given as the set of its numbers; every
\* section holds a number.
Sections == UNION {[1..n -> (SUBSET TableValues) \ {{}}] : n \in 1..MaxColumns}

\* The filter values: none (the default), the fill labels (as the command
\* line passes them) and the single value "1".
fill_labels == <<both_label, no_shipment_label, no_scan_label, scan_cell_label>>

FilterValues == {<<>>, fill_labels, <<<<1>>>>}

\* Column indexes, among them -1 and indexes past the last column.
FlatIndexes == SeqsUpTo((-1)..(MaxColumns - 1), MaxIndexes)

Batches == SeqsUpTo(0..(MaxColumns - 1), MaxBatch) \ {<<>>}

\* Two batches, the first of one column when the second has two.
BatchIndexes == {<<a, b>> : a \in {x \in Batches : Len(x) = 1}, b \in Batches}
                \cup {<<b, a>> : a \in {x \in Batches : Len(x) = 1}, b \in Batches}

\* The tables the analyzer is called on: num_scan_col as requested from the
\* constructor, and whether the fill of update_table reached df.
AnalyzerTables ==
  {SproutsTable(s, k, f, k = 1) : s \in Sections, k \in 0..1, f \in FilterValues}

ScanTables ==
  {SproutsTable(s, k, fill_labels, p) :
     s \in Sections, k \in (-1)..(MaxColumns + 1), p \in BOOLEAN}

\* The arguments of a call: the indexes, whether they are batches, and the
\* flag unique or symmetric of the operation.
Args(column_indexes, nested_indexes, flag) ==
  [column_indexes |-> column_indexes, nested_indexes |-> nested_indexes, flag |-> flag]

\* The lists handed to filter_list on its own: numbers, a fill label and an
\* empty cell.
FilterData == SeqsUpTo({<<2>>, <<1, 0>>, both_label, NaN}, MaxBatch)

FilterArgs == {[data |-> d, remove_values |-> f] : d \in FilterData, f \in FilterValues}

FlatArgs(flags) == {Args(c, FALSE, f) : c \in FlatIndexes, f \in flags}

BatchArgs(flags) == {Args(c, TRUE, f) : c \in BatchIndexes, f \in flags}

(* --------------------- the analyzer as a state machine ----------------- *)

\* The variables of the segmenter, which has no part in these calls.
NoSegmentor ==
  /\ rows = <<>>
  /\ nested = FALSE
  /\ headers = <<>>
  /\ invoice_scan = 0
  /\ max_rows = 0
  /\ tables = <<>>
  /\ frame = NoFrame

\* A table and the call about to be made on it.
InitAnalyzer ==
  /\ pc = "call"
  /\ ret = NoReturn
  /\ log = <<>>
  /\ NoSegmentor
  /\ self \in AnalyzerTables
  /\ \/ op \in {"get_values", "get_differences"} /\ args \in FlatArgs(BOOLEAN)
     \/ op \in {"get_values", "get_differences"} /\ args \in BatchArgs(BOOLEAN)
     \/ op \in {"get_duplicates", "get_overlap"} /\ args \in FlatArgs({FALSE})
     \/ op \in {"get_duplicates", "get_overlap"} /\ args \in BatchArgs({FALSE})
     \/ op = "filter_list" /\ args \in FilterArgs

InitScan ==
  /\ pc = "call"
  /\ ret = NoReturn
  /\ log = <<>>
  /\ NoSegmentor
  /\ self \in ScanTables
  /\ op \in {"get_scan_overlap", "get_scan_differences"}
  /\ args \in FlatArgs({FALSE})

\* The call ends: its value or error, and its log.
Finish(run) ==
  /\ ret' = [raised |-> run.raised, error |-> run.error, value |-> run.value]
  /\ log' = run.log
  /\ pc' = IF run.raised THEN "raised" ELSE "returned"
  /\ UNCHANGED <<op, self, args>>
  /\ UNCHANGED segmentorVars

GetValues ==
  /\ pc = "call"
  /\ op = "get_values"
  /\ Finish(get_values(self, args.column_indexes, args.nested_indexes, args.flag))

GetDuplicates ==
  /\ pc = "call"
  /\ op = "get_duplicates"
  /\ Finish(get_duplicates(self, args.column_indexes, args.nested_indexes))

GetOverlap ==
  /\ pc = "call"
  /\ op = "get_overlap"
  /\ Finish(get_overlap(self, args.column_indexes, args.nested_indexes))

GetDifferences ==
  /\ pc = "call"
  /\ op = "get_differences"
  /\ Finish(get_differences(self, args.column_indexes, args.nested_indexes, args.flag))

GetScanOverlap ==
  /\ pc = "call"
  /\ op = "get_scan_overlap"
  /\ Finish(get_scan_overlap(self, args.column_indexes))

GetScanDifferences ==
  /\ pc = "call"
  /\ op = "get_scan_differences"
  /\ Finish(get_scan_differences(self, args.column_indexes))

\* Table.filter_list(data, remove_values) called on its own.
FilterList ==
  /\ pc = "call"
  /\ op = "filter_list"
  /\ Finish(Result(filter_list(args.data, args.remove_values), <<>>))

NextAnalyzer == GetValues \/ GetDuplicates \/ GetOverlap \/ GetDifferences \/ FilterList

SpecAnalyzer == InitAnalyzer /\ [][NextAnalyzer]_vars

NextScan == GetScanOverlap \/ GetScanDifferences

SpecScan == InitScan /\ [][NextScan]_vars

(* ------------------------ reading an analyzer call --------------------- *)

\* The call of the named operation has ended.
Called(name) == op = name /\ pc # "call"

ColumnCount == Len(self.df.columns)

InRange(i) == 0 <= i /\ i < ColumnCount

\* The least number of indexes the operation asks for.
MinIndexes == IF op = "get_values" THEN 1 ELSE 2

\* The indexes of the call are invalid: a list that is empty, shorter than
\* the minimum or holds an index out of range; batches of which one is empty
\* or holds an index out of range.
InvalidIndexes ==
  IF args.nested_indexes
  THEN \E k \in 1..Len(args.column_indexes) :
          \/ args.column_indexes[k] = <<>>
          \/ \E i \in 1..Len(args.column_indexes[k]) : ~InRange(args.column_indexes[k][i])
  ELSE \/ Len(args.column_indexes) < MinIndexes
       \/ \E i \in 1..Len(args.column_indexes) : ~InRange(args.column_indexes[i])

\* The call returned an empty result.
EmptyResult ==
  /\ pc = "returned"
  /\ IF op = "get_values" THEN ret.value = <<>> ELSE ret.value = {}

\* The orders in which the listed columns or batches can be given.
Reorderings(list) ==
  {[i \in 1..Len(list) |-> list[p[i]]] : p \in Permutations(1..Len(list))}

\* The cells of column c (from 0) that the table's filter lets through.
FilteredColumn(c) ==
  {v \in {self.df.values[r][c + 1] : r \in 1..Len(self.df.index)} :
     ~regex_match(filter_pattern(self.filter_values), str_(v))}

\* The filtered values of the k-th listed column, or of the k-th batch: the
\* union of its columns.
Operand(k) ==
  IF args.nested_indexes
  THEN UNION {FilteredColumn(c) : c \in Range(args.column_indexes[k])}
  ELSE FilteredColumn(args.column_indexes[k])

Listed == 1..Len(args.column_indexes)

(* ------------------------------ claims --------------------------------- *)

\* C11: an operation of the analyzer called with invalid column indexes (an
\* empty list, fewer indexes than its minimum, an index outside
\* 0..column_count - 1) returns an empty result and does not raise.
C11_InvalidIndexesGiveEmpty == (pc # "call" /\ InvalidIndexes) => EmptyResult

\* C12: get_overlap over valid columns or batches returns the intersection of
\* the filtered value sets of the listed columns (a batch being the union of
\* its columns), and returns the same set for every order of the list.
C12_OverlapIsIntersection ==
  (Called("get_overlap") /\ ~InvalidIndexes)
    => /\ pc = "returned"
       /\ ret.value = {v \in Operand(1) : \A k \in Listed : v \in Operand(k)}
       /\ \A p \in Reorderings(args.column_indexes) :
             LET other == get_overlap(self, p, args.nested_indexes)
             IN ~other.raised /\ other.value = ret.value

\* A call of get_overlap on three different columns, or on two batches of
\* which one has two columns, that finds an overlap smaller than a column.
C12_Witness ==
  /\ Called("get_overlap")
  /\ ~InvalidIndexes
  /\ pc = "returned"
  /\ \E v \in ret.value : IsNumeric(v)
  /\ \E k \in Listed : Operand(k) # ret.value
  /\ \/ ~args.nested_indexes /\ Cardinality(Range(args.column_indexes)) = 3
     \/ args.nested_indexes /\ \E k \in Listed : Cardinality(Range(args.column_indexes[k])) = 2

\* C13: get_differences with symmetric = True returns the same set for every
\* order of the listed columns or batches.
C13_SymmetricOrderFree ==
  (Called("get_differences") /\ args.flag /\ ~InvalidIndexes)
    => /\ pc = "returned"
       /\ \A p \in Reorderings(args.column_indexes) :
             LET other == get_differences(self, p, args.nested_indexes, TRUE)
             IN ~other.raised /\ other.value = ret.value

\* A symmetric call on three different columns whose sets are not all the
\* same, with a number found to differ.
C13_Witness ==
  /\ Called("get_differences")
  /\ args.flag
  /\ ~args.nested_indexes
  /\ ~InvalidIndexes
  /\ Cardinality(Range(args.column_indexes)) = 3
  /\ Cardinality({Operand(k) : k \in Listed}) > 1
  /\ pc = "returned"
  /\ \E v \in ret.value : IsNumeric(v)

\* C14: get_differences with symmetric = False returns the filtered values of
\* the first listed column (or batch) that are in none of the following ones.
C14_StandardDifference ==
  (Called("get_differences") /\ ~args.flag /\ ~InvalidIndexes)
    => /\ pc = "returned"
       /\ ret.value = {v \in Operand(1) : \A k \in Listed \ {1} : v \notin Operand(k)}

\* A standard difference that another order of the same columns changes.
C14_Witness ==
  /\ Called("get_differences")
  /\ ~args.flag
  /\ ~InvalidIndexes
  /\ pc = "returned"
  /\ \E v \in ret.value : IsNumeric(v)
  /\ \E p \in Reorderings(args.column_indexes) :
        get_differences(self, p, args.nested_indexes, FALSE).value # ret.value

NotFilterEntries(list, remove_values) ==
  SelectSeq(list, LAMBDA val : ~InList(val, remove_values))

\* C16: get_values over valid columns returns the cells of those columns that
\* are not equal to an entry of the filter list (each distinct one once when
\* unique), and filter_list keeps exactly the items that are not equal to an
\* entry: all of them when the filter list is empty, and a value that only
\* starts with an entry.
C16_ExcludedIffFilterEntry ==
  /\ Called("filter_list")
       => ret.value = NotFilterEntries(args.data, args.remove_values)
  /\ (Called("get_values") /\ ~args.nested_indexes /\ ~InvalidIndexes)
       => /\ pc = "returned"
          /\ LET cells == NotFilterEntries(iloc_values(self.df, args.column_indexes),
                                           self.filter_values)
             IN IF args.flag
                THEN /\ Range(ret.value) = Range(cells)
                     /\ Len(ret.value) = Cardinality(Range(cells))
                ELSE ret.value = cells

\* The listed columns hold no scan column, or no shipment column.
NoScanSelected == get_header_indices(self.df, "Scan") \cap Range(args.column_indexes) = {}

NoShipmentSelected ==
  get_header_indices(self.df, "Shipment") \cap Range(args.column_indexes) = {}

\* C17: get_scan_overlap and get_scan_differences called with valid indexes
\* that select no scan column or no shipment column return an empty result,
\* and the log entry for that outcome is of level info in both cases.
C17_ScanQueriesLogInfo ==
  (pc # "call" /\ ~InvalidIndexes /\ (NoScanSelected \/ NoShipmentSelected))
    => /\ EmptyResult
       /\ log # <<>>
       /\ log[Len(log)].level = "info"


(* ----------------------------- RegexSearch ------------------------------ *)

\* The characters of a pattern beside the digits and "|": "^" is 14, "$" is
\* 15, " " is 16, "(" is 17, ")" is 18, "?" is 19 and ":" is 20.
start_anchor == <<14>>

end_anchor == <<15>>

whitespace == <<16>>

\* "(?:" and ")".
group_open == <<17, 19, 20>>

group_close == <<18>>

\* "|", between the alternatives of a group.
alternation == <<11>>

\* sep.join(list).
RECURSIVE join(_, _)
join(sep, list) ==
  IF list = <<>> THEN <<>>
  ELSE IF Len(list) = 1 THEN Head(list)
  ELSE Head(list) \o sep \o join(sep, Tail(list))

\* re.sub(r"^\^|\$$", "", pattern): a "^" at the start of the string and a "$"
\* at its end are removed, one of each at most.
sub_anchors(pattern) ==
  LET no_start == IF pattern # <<>> /\ <<Head(pattern)>> = start_anchor
                  THEN Tail(pattern) ELSE pattern
  IN IF no_start # <<>> /\ <<no_start[Len(no_start)]>> = end_anchor
     THEN SubSeq(no_start, 1, Len(no_start) - 1)
     ELSE no_start

\* str.rstrip() and str.strip(): the whitespace at the ends is removed.
RECURSIVE rstrip(_)
rstrip(s) ==
  IF s # <<>> /\ <<s[Len(s)]>> = whitespace THEN rstrip(SubSeq(s, 1, Len(s) - 1)) ELSE s

strip(s) == rstrip(lstrip(s, whitespace[1]))

\* strip_pattern with the whitespace left in place.
strip_pattern_keeps_whitespace(pattern) == sub_anchors(pattern)

\* RegexSearch.strip_pattern(pattern).
strip_pattern(pattern) == strip(sub_anchors(pattern))

\* RegexSearch.concat_patterns(patterns, sep, anchors).
concat_patterns(patterns, sep, anchors) ==
  LET stripped == [i \in 1..Len(patterns) |-> strip_pattern(patterns[i])]
  IN IF anchors
     THEN start_anchor \o group_open \o join(sep, stripped) \o group_close \o end_anchor
     ELSE group_open \o join(sep, stripped) \o group_close

\* str.split(sep) for a separator of one character.
RECURSIVE split(_, _)
split(s, sep) ==
  IF \A i \in 1..Len(s) : <<s[i]>> # sep THEN <<s>>
  ELSE LET at == CHOOSE i \in 1..Len(s) : <<s[i]>> = sep /\ \A j \in 1..(i - 1) : <<s[j]>> # sep
       IN <<SubSeq(s, 1, at - 1)>> \o split(SubSeq(s, at + 1, Len(s)), sep)

\* Whether the pattern begins with "^" and whether it ends with "$".
starts_anchored(pattern) == pattern # <<>> /\ <<Head(pattern)>> = start_anchor

ends_anchored(pattern) == pattern # <<>> /\ <<pattern[Len(pattern)]>> = end_anchor

\* The alternatives of a pattern "(?:a|b|c)", anchored or not, as the regex
\* engine tries them: from left to right.
alternatives(pattern) ==
  LET group == sub_anchors(pattern)
  IN split(SubSeq(group, Len(group_open) + 1, Len(group) - Len(group_close)), alternation)

\* Whether `part` is in `text` at position `pos`.
occurs_at(part, text, pos) ==
  /\ pos + Len(part) - 1 <= Len(text)
  /\ SubSeq(text, pos, pos + Len(part) - 1) = part

\* re.fullmatch(pattern, string) for a pattern of literal alternatives: the
\* anchors hold at the ends of a string of one line.
fullmatch(pattern, string) ==
  \E k \in 1..Len(alternatives(pattern)) : alternatives(pattern)[k] = string

\* re.findall(pattern, text) for a pattern of literal alternatives without
\* anchors: at each position the first alternative that is there is taken and
\* the search goes on behind it; an empty match is recorded too, and the next
\* match at that position must not be empty.
RECURSIVE findall_loop(_, _, _, _)
findall_loop(alts, text, pos, must_advance) ==
  IF pos > Len(text) + 1 THEN <<>>
  ELSE LET there == {k \in 1..Len(alts) :
                       /\ occurs_at(alts[k], text, pos)
                       /\ (alts[k] # <<>> \/ ~must_advance)}
       IN IF there = {} THEN findall_loop(alts, text, pos + 1, FALSE)
          ELSE LET found == alts[CHOOSE k \in there : \A j \in there : k <= j]
               IN IF found = <<>>
                  THEN <<found>> \o findall_loop(alts, text, pos, TRUE)
                  ELSE <<found>> \o findall_loop(alts, text, pos + Len(found), FALSE)

findall(pattern, text) == findall_loop(alternatives(pattern), text, 1, FALSE)

\* RegexSearch.compare_lists(base_list, compare_lists): the tuple
\* (found_items, missing_items).
compare_lists(base_list, candidates) ==
  LET anchored     == concat_patterns(flatten(base_list, FALSE), alternation, TRUE)
      base_pattern == SubSeq(anchored, 2, Len(anchored) - 1)
      found_items  == findall(base_pattern, join(whitespace, flatten(candidates, FALSE)))
  IN [found_items   |-> found_items,
      missing_items |-> SelectSeq(candidates, LAMBDA item : ~InList(item, found_items))]

(* ----------------- inputs of the calls on RegexSearch ------------------ *)

MaxPatternLen == 3

MaxPatterns == 2

MaxBase == 2

MaxCandidates == 3

\* "1", "^", "$" and " ".
PatternAlphabet == {1} \cup Range(start_anchor) \cup Range(end_anchor) \cup Range(whitespace)

PatternLists == SeqsUpTo(SeqsUpTo(PatternAlphabet, MaxPatternLen), MaxPatterns)

\* "|" and "".
Separators == {alternation, <<>>}

ConcatArgs ==
  {[patterns |-> p, sep |-> s, anchors |-> a] :
     p \in PatternLists, s \in Separators, a \in BOOLEAN}

\* "1", "12", "34" and "99".
Tokens == {<<1>>, <<1, 2>>, <<3, 4>>, <<9, 9>>}

CompareArgs ==
  {[base_list |-> b, compare_lists |-> c] :
     b \in SeqsUpTo(Tokens, MaxBase), c \in SeqsUpTo(Tokens, MaxCandidates)}

(* ------------------- RegexSearch as a state machine -------------------- *)

\* The static method about to be called.
InitRegex ==
  /\ pc = "call"
  /\ ret = NoReturn
  /\ log = <<>>
  /\ self = NoObject
  /\ NoSegmentor
  /\ \/ op = "concat_patterns" /\ args \in ConcatArgs
     \/ op = "compare_lists" /\ args \in CompareArgs

ConcatPatterns ==
  /\ pc = "call"
  /\ op = "concat_patterns"
  /\ Finish(Result(concat_patterns(args.patterns, args.sep, args.anchors), <<>>))

\* The pattern that concat_patterns returned is passed to it again.
ConcatPatternsAgain ==
  /\ pc = "returned"
  /\ op = "concat_patterns"
  /\ args' = [args EXCEPT !.patterns = <<ret.value>>]
  /\ ret' = Returned(concat_patterns(<<ret.value>>, args.sep, args.anchors))
  /\ pc' = "returned again"
  /\ UNCHANGED <<op, self, log>>
  /\ UNCHANGED segmentorVars

CompareLists ==
  /\ pc = "call"
  /\ op = "compare_lists"
  /\ Finish(Result(compare_lists(args.base_list, args.compare_lists), <<>>))

NextRegex == ConcatPatterns \/ ConcatPatternsAgain \/ CompareLists

SpecRegex == InitRegex /\ [][NextRegex]_vars

(* --------------------- reading a call on RegexSearch ------------------- *)

\* The number of times the character is in the string.
Occurrences(char, s) == Cardinality({i \in 1..Len(s) : <<s[i]>> = char})

\* The values with one leading "^" and one trailing "$" removed, joined.
JoinedWithoutAnchors ==
  join(args.sep, [i \in 1..Len(args.patterns) |-> sub_anchors(args.patterns[i])])

\* ... and with the whitespace around each of them removed as well.
JoinedFragments ==
  join(args.sep, [i \in 1..Len(args.patterns) |-> strip(sub_anchors(args.patterns[i]))])

AnchorFree(s) == Occurrences(start_anchor, s) = 0 /\ Occurrences(end_anchor, s) = 0

\* A group between one "^" at the beginning and one "$" at the end, with no
\* other anchor in it.
AnchoredOnce(pattern) ==
  /\ starts_anchored(pattern)
  /\ ends_anchored(pattern)
  /\ Occurrences(start_anchor, pattern) = 1
  /\ Occurrences(end_anchor, pattern) = 1

\* What concat_patterns returns for fragments that are joined already.
Wrapped(joined) ==
  IF args.anchors
  THEN start_anchor \o group_open \o joined \o group_close \o end_anchor
  ELSE group_open \o joined \o group_close

\* C18 as stated: concat_patterns returns the values, each with one leading
\* "^" and one trailing "$" removed and nothing else, joined by sep in a group
\* that is anchored exactly when anchors is set; an anchored result passed in
\* again comes back with one anchor at each end and none inside.
C18_AnchorsRemovedOnly ==
  Called("concat_patterns") =>
    /\ pc = "returned" => ret.value = Wrapped(JoinedWithoutAnchors)
    /\ (pc = "returned again" /\ args.anchors
          /\ AnchorFree(sub_anchors(args.patterns[1])))
         => AnchoredOnce(ret.value)

\* C18: concat_patterns returns the values, each with one leading "^" and one
\* trailing "$" removed and then the whitespace at its ends removed, joined by
\* sep in a group that is anchored exactly when anchors is set; an anchored
\* result passed in again is wrapped in one more group, with one anchor at
\* each end and none inside when the first result had none inside; without
\* anchors the result begins with the group and ends with it.
C18_AnchorsAndWhitespaceRemoved ==
  Called("concat_patterns") =>
    /\ pc = "returned" =>
         /\ ret.value = Wrapped(JoinedFragments)
         /\ ~args.anchors => ~starts_anchored(ret.value) /\ ~ends_anchored(ret.value)
    /\ pc = "returned again" =>
         /\ ret.value = Wrapped(sub_anchors(args.patterns[1]))
         /\ (args.anchors /\ AnchorFree(sub_anchors(args.patterns[1])))
              => AnchoredOnce(ret.value)

\* An anchored result was made of a value with both anchors and a value with
\* whitespace at an end.
C18_Witness ==
  /\ op = "concat_patterns"
  /\ pc = "returned"
  /\ args.anchors
  /\ \E i \in 1..Len(args.patterns) :
       /\ starts_anchored(args.patterns[i])
       /\ ends_anchored(args.patterns[i])
       /\ IsNumeric(sub_anchors(args.patterns[i]))
  /\ \E i \in 1..Len(args.patterns) :
       /\ strip_pattern(args.patterns[i]) # sub_anchors(args.patterns[i])
       /\ IsNumeric(strip_pattern(args.patterns[i]))

\* C20: compare_lists returns as matches the candidates that are equal to an
\* item of the base list and as misses the other candidates, both in the
\* order of the candidates, so that every match is a candidate and every
\* candidate is in exactly one of the two lists.
C20_MatchesAreEqualCandidates ==
  Called("compare_lists") =>
    /\ ret.value.found_items =
         SelectSeq(args.compare_lists, LAMBDA item : InList(item, args.base_list))
    /\ ret.value.missing_items =
         SelectSeq(args.compare_lists, LAMBDA item : ~InList(item, args.base_list))


(* ------------------------ MarkdownTable, RegexTable --------------------- *)

\* A dict is the list of its items in the order of their insertion.
Item(key, value) == [key |-> key, value |-> value]

keys(dict) == [i \in 1..Len(dict) |-> dict[i].key]

\* An empty RegexDict: no name was added, get_pattern returns None.
NoPatterns ==
  [added |-> FALSE, duplicates |-> <<>>, non_duplicates |-> <<>>, unique |-> <<>>,
   overlap |-> <<>>, rows |-> <<>>, columns |-> <<>>]

\* RegexTable(): MarkdownTable.__init__ and an empty RegexDict.
RegexTable ==
  [class |-> "RegexTable", headers |-> <<>>, rows |-> <<>>, columns |-> <<>>,
   num_columns |-> 0, num_rows |-> 0,
   duplicates |-> <<>>, duplicates_count |-> 0,
   non_duplicates |-> <<>>, non_duplicates_count |-> 0,
   unique_values |-> <<>>, unique_values_count |-> 0,
   overlap |-> <<>>, overlap_count |-> 0,
   has_totals_col |-> FALSE, has_scan_col |-> FALSE,
   patterns |-> NoPatterns]

\* The strings left out of the statistics: "////", "!!!!" and "----" ("====",
\* "****" and "~~~~" are in no cell here).
remove_strings == <<scan_missing_label, incorrect_label, missing_label>>

\* "scan" in header.casefold().
is_scan_header(header) == header.label = "Scan"

\* _update_table_stats, lines 266-293: the unique values in sorted order, the
\* duplicates with their counts, the non-duplicates.
with_values(t) ==
  LET flat          == concat(t.rows)
      unique_values == SortedStr({v \in Range(flat) : ~InList(v, remove_strings)})
      value_count   == [i \in 1..Len(unique_values) |->
                          count(flat, unique_values[i]) - (IF t.has_totals_col THEN 1 ELSE 0)]
      duplicated    == SelectSeq([i \in 1..Len(unique_values) |->
                                    Item(unique_values[i], value_count[i])],
                                 LAMBDA item : item.value > 1)
      single        == SelectSeq([i \in 1..Len(unique_values) |->
                                    Item(unique_values[i], value_count[i])],
                                 LAMBDA item : ~(item.value > 1))
  IN [t EXCEPT !.duplicates = duplicated, !.duplicates_count = Len(duplicated),
               !.non_duplicates = keys(single), !.non_duplicates_count = Len(single),
               !.unique_values = unique_values, !.unique_values_count = Len(unique_values)]

\* _update_counts: the count of the overlap is taken before _set_overlap runs.
_update_counts(t) ==
  [t EXCEPT !.num_rows = Len(t.rows), !.num_columns = Len(t.headers),
            !.duplicates_count = Len(t.duplicates),
            !.non_duplicates_count = Len(t.non_duplicates),
            !.unique_values_count = Len(t.unique_values),
            !.overlap_count = Len(t.overlap)]

\* _set_columns reads rows[j][i] for every column i: a row with fewer cells
\* than there are headers raises IndexError.
_set_columns_raises(t) == \E j \in 1..Len(t.rows) : Len(t.rows[j]) < t.num_columns

_set_columns(t) ==
  [t EXCEPT !.columns = [i \in 1..t.num_columns |->
                           [j \in 1..Len(t.rows) |-> t.rows[j][i]]]]

\* _set_overlap: the unique values found in more than one of the columns
\* behind the last scan column and before the totals column.
_set_overlap(t) ==
  LET end      == IF t.has_totals_col THEN Len(t.headers) - 1 ELSE Len(t.headers)
      scan     == {i \in 1..t.num_columns : is_scan_header(t.headers[i])}
      start    == IF t.has_scan_col /\ scan # {} THEN Max(scan) ELSE 0
      searched == (start + 1)..(IF end < Len(t.columns) THEN end ELSE Len(t.columns))
      found    == [i \in 1..Len(t.unique_values) |->
                     Item(t.unique_values[i],
                          Cardinality({c \in searched :
                                         InList(t.unique_values[i], t.columns[c])}))]
  IN [t EXCEPT !.overlap = SelectSeq(found, LAMBDA item : item.value > 1)]

\* MarkdownTable._update_table_stats; _update_max_str_length sets only the
\* width of the cells in print, which is left out.
MarkdownTable_update_table_stats(t) ==
  LET counted == _update_counts(with_values(t))
  IN IF _set_columns_raises(counted)
     THEN [raised |-> TRUE, error |-> "IndexError", table |-> counted]
     ELSE [raised |-> FALSE, error |-> "", table |-> _set_overlap(_set_columns(counted))]

\* The items of a row or column that are unique values, stripped; none of
\* them gives no pattern.
sanitized(list, t) ==
  LET items == SelectSeq(list, LAMBDA item : InList(item, t.unique_values))
  IN [i \in 1..Len(items) |-> strip(items[i])]

sanitized_patterns(lists, t) ==
  LET kept == SelectSeq(lists, LAMBDA list : sanitized(list, t) # <<>>)
  IN [i \in 1..Len(kept) |-> concat_patterns(sanitized(kept[i], t), alternation, TRUE)]

\* RegexTable._set_patterns: add_patterns sets every name anew.
_set_patterns(t) ==
  [t EXCEPT !.patterns =
     [added          |-> TRUE,
      duplicates     |-> concat_patterns(keys(SelectSeq(t.duplicates,
                                                     LAMBDA item : item.value > 1)),
                                         alternation, TRUE),
      non_duplicates |-> concat_patterns(t.non_duplicates, alternation, TRUE),
      unique         |-> concat_patterns(t.unique_values, alternation, TRUE),
      overlap        |-> concat_patterns(keys(t.overlap), alternation, TRUE),
      rows           |-> sanitized_patterns([j \in 1..Len(t.rows) |->
                                               SortedStr(Range(t.rows[j]))], t),
      columns        |-> sanitized_patterns(t.columns, t)]]

\* RegexTable._update_table_stats: the patterns are set when the statistics
\* were updated without an error.
_update_table_stats(t) ==
  LET updated == MarkdownTable_update_table_stats(t)
  IN IF updated.raised THEN updated
     ELSE [updated EXCEPT !.table = _set_patterns(updated.table)]

\* add_header(value).
add_header(t, value) == _update_table_stats([t EXCEPT !.headers = Append(t.headers, value)])

\* add_row(values): too many cells raise ValueError before the row is added.
add_row(t, values) ==
  IF Len(values) > t.num_columns
  THEN [raised |-> TRUE, error |-> "ValueError", table |-> t]
  ELSE _update_table_stats([t EXCEPT !.rows = Append(t.rows, values)])

(* -------------------- RegexTable as a state machine -------------------- *)

MaxTableHeaders == 2

MaxTableRows == 2

\* "Scan 1", "Shipment 1" and "Total Values".
TableHeaders == {Header("Scan", 1), Header("Shipment", 1), TotalValuesHeader}

\* "1", "2" and the label "----".
TableCells == {<<1>>, <<2>>, missing_label}

\* Rows of no cell up to one cell more than there can be headers.
TableRows == SeqsUpTo(TableCells, MaxTableHeaders + 1)

\* A new RegexTable.
InitRegexTable ==
  /\ pc = "returned"
  /\ op = "RegexTable"
  /\ self = RegexTable
  /\ args = NoArgs
  /\ ret = NoReturn
  /\ log = <<>>
  /\ NoSegmentor

\* The call on the table ends: the table as the call leaves it.
FinishOnTable(name, input, run) ==
  /\ op' = name
  /\ args' = input
  /\ self' = run.table
  /\ ret' = [raised |-> run.raised, error |-> run.error, value |-> <<>>]
  /\ pc' = IF run.raised THEN "raised" ELSE "returned"
  /\ UNCHANGED log
  /\ UNCHANGED segmentorVars

AddHeader ==
  /\ Len(self.headers) < MaxTableHeaders
  /\ \E value \in TableHeaders :
       FinishOnTable("add_header", [value |-> value], add_header(self, value))

AddRow ==
  /\ Len(self.rows) < MaxTableRows
  /\ \E values \in TableRows :
       FinishOnTable("add_row", [values |-> values], add_row(self, values))

NextRegexTable == AddHeader \/ AddRow

SpecRegexTable == InitRegexTable /\ [][NextRegexTable]_vars

(* ------------------------ reading a RegexTable ------------------------- *)

\* The strings that are tried on the patterns: "", the cells and "12".
Probes == TableCells \cup {<<>>, <<1, 2>>}

\* The string is matched in full by the table's pattern of that name.
Matched(name, string) == self.patterns.added /\ fullmatch(self.patterns[name], string)

\* C19: in every state of a table, a string is matched in full by the overlap
\* pattern exactly when it is one of the overlap values, and likewise for the
\* duplicates, the non-duplicates and the unique values, also when there is
\* no such value.
C19_PatternsMatchTheirValues ==
  \A string \in Probes :
    /\ Matched("overlap", string) <=> InList(string, keys(self.overlap))
    /\ Matched("duplicates", string) <=> InList(string, keys(self.duplicates))
    /\ Matched("non_duplicates", string) <=> InList(string, self.non_duplicates)
    /\ Matched("unique", string) <=> InList(string, self.unique_values)

(* ------------------ DataParser as a state machine ---------------------- *)

MaxTokens == 3

\* "1", "9", "10", "0", "09", "a", the ignore token "|" and the empty string,
\* which is what remove_leading makes of "0".
ParserTokens == ShortAlphabet \cup {<<>>}

TokenLists == SeqsUpTo(ParserTokens, MaxTokens)

\* The three results _segment computes before it selects one, lines 86-96.
strategies(data) ==
  IF pad_list_raises(stringify(data), ignore) THEN Raised("ValueError")
  ELSE Returned([duplicates |-> strategy_duplicates(data),
                 separator  |-> strategy_separator(data),
                 monotonic  |-> strategy_monotonic(data)])

\* The list handed to a static method of DataParser, or to _segment.
InitParser ==
  /\ pc = "call"
  /\ ret = NoReturn
  /\ log = <<>>
  /\ self = NoObject
  /\ NoSegmentor
  /\ op \in {"segment_separator", "segment_monotonic", "segment_duplicates", "strategies"}
  /\ args \in {[data |-> d, sep |-> ignore] : d \in TokenLists}

SegmentSeparator ==
  /\ pc = "call"
  /\ op = "segment_separator"
  /\ Finish(Result(segment_separator(args.data, args.sep), <<>>))

SegmentMonotonic ==
  /\ pc = "call"
  /\ op = "segment_monotonic"
  /\ Finish(Result(segment_monotonic(args.data), <<>>))

SegmentDuplicates ==
  /\ pc = "call"
  /\ op = "segment_duplicates"
  /\ Finish(Result(segment_duplicates(args.data, args.sep), <<>>))

\* _segment up to the selection of a result.
SegmentStrategies ==
  /\ pc = "call"
  /\ op = "strategies"
  /\ LET run == strategies(args.data)
     IN Finish([raised |-> run.raised, error |-> run.error, value |-> run.value,
                log |-> <<>>])

NextParser == SegmentSeparator \/ SegmentMonotonic \/ SegmentDuplicates \/ SegmentStrategies

SpecParser == InitParser /\ [][NextParser]_vars

(* ----------------------- reading a segmentation ------------------------ *)

\* The positions of the data that hold the ignore token.
IgnorePositions(data, sep) == {i \in 1..Len(data) : data[i] = sep}

\* The data without its ignore tokens.
WithoutIgnored(data, sep) == SelectSeq(data, LAMBDA item : item # sep)

\* The tokens between the (k - 1)-th and the k-th ignore token; behind the
\* last one for k past their number.
Between(data, sep, k) ==
  LET at(n) == IF n = 0 THEN 0
               ELSE IF n > Cardinality(IgnorePositions(data, sep)) THEN Len(data) + 1
               ELSE CHOOSE i \in IgnorePositions(data, sep) :
                      Cardinality({j \in IgnorePositions(data, sep) : j <= i}) = n
  IN SubSeq(data, at(k - 1) + 1, at(k) - 1)

\* The position in the input of the first token of each returned group.
GroupStarts(groups) ==
  {1 + Len(concat(SubSeq(groups, 1, k - 1))) : k \in 1..Len(groups)}

NonDecreasing(group) ==
  \A i \in 1..(Len(group) - 1) :
     /\ IsNumeric(group[i])
     /\ IsNumeric(group[i + 1])
     /\ ToInt(group[i]) <= ToInt(group[i + 1])

\* C26: segment_separator makes a group of the tokens between two ignore
\* tokens and of those before the first and behind the last one (none behind
\* it, no group): the boundaries are at the ignore tokens and nowhere else,
\* no group holds the ignore token, and the other tokens are all there, once
\* each and in their order.
C26_BoundariesAtIgnoreTokens ==
  Called("segment_separator") =>
    LET n == Cardinality(IgnorePositions(args.data, args.sep))
    IN /\ concat(ret.value) = WithoutIgnored(args.data, args.sep)
       /\ \A k \in 1..Len(ret.value) : ~InList(args.sep, ret.value[k])
       /\ Len(ret.value) = IF Between(args.data, args.sep, n + 1) = <<>> THEN n ELSE n + 1
       /\ \A k \in 1..Len(ret.value) : ret.value[k] = Between(args.data, args.sep, k)

\* C27: segment_monotonic returns the runs of its input: a group begins at a
\* token exactly when the token is less than the one before it or one of the
\* two is not a number; the groups are not empty, hold the input in its
\* order, and none of them decreases.
C27_MaximalNonDecreasingRuns ==
  Called("segment_monotonic") =>
    /\ concat(ret.value) = args.data
    /\ \A k \in 1..Len(ret.value) : ret.value[k] # <<>> /\ NonDecreasing(ret.value[k])
    /\ \A i \in 2..Len(args.data) :
         i \in GroupStarts(ret.value)
           <=> \/ ~IsNumeric(args.data[i])
               \/ ~IsNumeric(args.data[i - 1])
               \/ ToInt(args.data[i]) < ToInt(args.data[i - 1])

\* C28: each of the three results that _segment computes holds, group after
\* group, the input tokens without the ignore tokens: none rewritten, none
\* moved, none twice, none lost.
C28_StrategiesOnlyPartition ==
  (Called("strategies") /\ pc = "returned") =>
    /\ concat(ret.value.separator) = WithoutIgnored(args.data, ignore)
    /\ concat(ret.value.monotonic) = WithoutIgnored(args.data, ignore)
    /\ concat(ret.value.duplicates) = WithoutIgnored(args.data, ignore)

(* --------------------------- TableOrganizer ---------------------------- *)

\* TableOrganizer(): tables is an empty dict.
TableOrganizer == [class |-> "TableOrganizer", tables |-> <<>>]

has_key(dict, key) == \E i \in 1..Len(dict) : dict[i].key = key

value_of(dict, key) == dict[CHOOSE i \in 1..Len(dict) : dict[i].key = key].value

\* dict[key] = value: the value of a key that is there is replaced.
set_item(dict, key, value) ==
  IF has_key(dict, key)
  THEN [i \in 1..Len(dict) |-> IF dict[i].key = key THEN Item(key, value) ELSE dict[i]]
  ELSE Append(dict, Item(key, value))

\* add_table: self.tables[len(self.tables)] = table.
add_table(o, table) ==
  [raised |-> FALSE, error |-> "", value |-> <<>>,
   object |-> [o EXCEPT !.tables = set_item(o.tables, Len(o.tables), table)]]

\* pop_table: dict.pop(index) raises KeyError for a key that is not there,
\* and the handler is for IndexError.
pop_table(o, index) ==
  IF has_key(o.tables, index)
  THEN [raised |-> FALSE, error |-> "", value |-> <<value_of(o.tables, index)>>,
        object |-> [o EXCEPT !.tables = SelectSeq(o.tables, LAMBDA item : item.key # index)]]
  ELSE [raised |-> TRUE, error |-> "KeyError", value |-> <<>>, object |-> o]

\* get_table: a negative index stands for len(self.tables) - 1.
get_table(o, index) ==
  LET key == IF index < 0 THEN Len(o.tables) - 1 ELSE index
  IN IF has_key(o.tables, key)
     THEN [raised |-> FALSE, error |-> "", value |-> <<value_of(o.tables, key)>>, object |-> o]
     ELSE [raised |-> TRUE, error |-> "KeyError", value |-> <<>>, object |-> o]

total_tables(o) == Len(o.tables)

(* ------------------ TableOrganizer as a state machine ------------------ *)

MaxAdded == 3

\* The indexes handed to pop_table and get_table.
TableIndexes == (-1)..MaxAdded

\* What the callers did: the tables they added, in that order, and the
\* tables pop_table handed back.  The n-th table added is n.
History(added, popped) == [added |-> added, popped |-> popped]

\* A new organizer.
InitOrganizer ==
  /\ pc = "returned"
  /\ op = "TableOrganizer"
  /\ self = TableOrganizer
  /\ args = NoArgs
  /\ ret = NoReturn
  /\ log = <<>>
  /\ rows = <<>> /\ nested = FALSE /\ headers = <<>> /\ invoice_scan = 0 /\ max_rows = 0
  /\ tables = <<>>
  /\ frame = History(<<>>, {})

\* The call on the organizer ends.
FinishOnOrganizer(name, input, run, history) ==
  /\ op' = name
  /\ args' = input
  /\ self' = run.object
  /\ ret' = [raised |-> run.raised, error |-> run.error, value |-> run.value]
  /\ pc' = IF run.raised THEN "raised" ELSE "returned"
  /\ frame' = history
  /\ UNCHANGED <<log, rows, nested, headers, invoice_scan, max_rows, tables>>

AddTable ==
  /\ Len(frame.added) < MaxAdded
  /\ LET table == Len(frame.added) + 1
     IN FinishOnOrganizer("add_table", [table |-> table], add_table(self, table),
                          History(Append(frame.added, table), frame.popped))

PopTable ==
  \E index \in TableIndexes :
    LET run == pop_table(self, index)
    IN FinishOnOrganizer("pop_table", [index |-> index], run,
                         History(frame.added, frame.popped \cup Range(run.value)))

GetTable ==
  \E index \in TableIndexes :
    FinishOnOrganizer("get_table", [index |-> index], get_table(self, index), frame)

NextOrganizer == AddTable \/ PopTable \/ GetTable

SpecOrganizer == InitOrganizer /\ [][NextOrganizer]_vars

(* ------------------------ reading an organizer ------------------------- *)

\* The tables that were added and not handed back by pop_table.
Remaining == Range(frame.added) \ frame.popped

Retrievable(table) ==
  \E index \in TableIndexes :
     /\ ~get_table(self, index).raised
     /\ get_table(self, index).value = <<table>>

\* C29: after any calls of add_table and pop_table the tables added and not
\* popped are all stored and get_table returns each for some index, there are
\* as many tables as adds less the pops that returned one, get_table of a
\* negative index returns the last added of them, and pop_table and get_table
\* do not raise.
C29_AddedTablesAreKept ==
  /\ \A table \in Remaining : Retrievable(table)
  /\ total_tables(self) = Len(frame.added) - Cardinality(frame.popped)
  /\ Remaining # {} =>
       /\ ~get_table(self, -1).raised
       /\ get_table(self, -1).value = <<Max(Remaining)>>
  /\ op \in {"pop_table", "get_table"} => pc # "raised"

(* ------------------- MarkdownTable: edit and to_string ------------------ *)

\* list[i] is defined for -len <= i < len; a negative i counts from the end.
valid_index(i, length) == -length <= i /\ i < length

\* The place, counted from 1, that list[i] reads.
position(i, length) == IF i < 0 THEN length + i + 1 ELSE i + 1

\* The assignment in edit, lines 353-363: with rows in the table, row 0 is
\* for the headers and any other row is rows[row]; an IndexError is caught
\* and nothing is assigned.
edit_assign(t, row, col, new) ==
  IF t.rows = <<>> THEN t
  ELSE IF row = 0
       THEN IF valid_index(col, Len(t.headers))
            THEN [t EXCEPT !.headers[position(col, Len(t.headers))] = new]
            ELSE t
       ELSE IF /\ valid_index(row, Len(t.rows))
               /\ valid_index(col, Len(t.rows[position(row, Len(t.rows))]))
            THEN LET r == position(row, Len(t.rows))
                 IN [t EXCEPT !.rows[r][position(col, Len(t.rows[r]))] = new]
            ELSE t

\* MarkdownTable.edit(row, col, new): the statistics are updated in any case.
edit(t, row, col, new) == _update_table_stats(edit_assign(t, row, col, new))

\* The cell to_string fills a short row with: spaces, as many as the widest
\* cell has characters; the width is left out and the cell is one space.
blank_cell == whitespace

\* MarkdownTable.to_string, lines 400-409: the rows with fewer cells than
\* num_columns are extended in place; the text it returns is left out.
to_string(t) ==
  [raised |-> FALSE, error |-> "",
   table |-> [t EXCEPT !.rows =
                [j \in 1..Len(t.rows) |->
                   IF Len(t.rows[j]) < t.num_columns
                   THEN t.rows[j] \o [k \in 1..(t.num_columns - Len(t.rows[j])) |-> blank_cell]
                   ELSE t.rows[j]]]]

(* ------------------ MarkdownTable as a state machine ------------------- *)

\* The row and column numbers handed to edit.
EditRows == (-1)..MaxTableRows

EditColumns == (-1)..MaxTableHeaders

\* The table is still being built: no cell was edited and it was not printed.
Building == op \notin {"edit", "to_string"}

\* add_header and add_row while the table is built.
BuildTable == Building /\ (AddHeader \/ AddRow)

\* One edit of a table that was built.
Edit ==
  /\ Building
  /\ \E row \in EditRows, col \in EditColumns :
       \E new \in (IF row = 0 THEN TableHeaders ELSE TableCells) :
          FinishOnTable("edit", [row |-> row, col |-> col, new |-> new],
                        edit(self, row, col, new))

\* The table is formatted, after it was built or after an add_row raised.
FormatTable ==
  /\ Building
  /\ FinishOnTable("to_string", NoArgs, to_string(self))

NextMarkdown == BuildTable \/ Edit \/ FormatTable

SpecMarkdown == InitRegexTable /\ [][NextMarkdown]_vars

(* ---------------------- reading a MarkdownTable ------------------------ *)

\* The headers and rows that edit(row, col, new) is to leave: the cell of
\* column col (counted from 0, as printed above the grid) in the data row
\* that the grid numbers row (counted from 1), the header of column col for
\* row 0, and no change for a row or column that is not there.
EditedAsNumbered(t, row, col, new) ==
  IF row >= 1 /\ row <= Len(t.rows) /\ col >= 0 /\ col < Len(t.rows[row])
  THEN [headers |-> t.headers, rows |-> [t.rows EXCEPT ![row][col + 1] = new]]
  ELSE IF row = 0 /\ col >= 0 /\ col < Len(t.headers)
       THEN [headers |-> [t.headers EXCEPT ![col + 1] = new], rows |-> t.rows]
       ELSE [headers |-> t.headers, rows |-> t.rows]

\* C30: edit(row, col, new) with 1 <= row <= num_rows replaces the cell of
\* column col in the row-th data row, the one the grid numbers row, and
\* nothing else; row 0 replaces header col only; a row or column out of range
\* changes no header and no cell.
C30_EditsTheNumberedRow ==
  [][op' = "edit" =>
       LET expected == EditedAsNumbered(self, args'.row, args'.col, args'.new)
       IN self'.headers = expected.headers /\ self'.rows = expected.rows]_vars

\* C23: add_row with fewer cells than the table has headers completes
\* without an error and the row is appended as given; to_string leaves every
\* row with exactly num_columns cells, the short ones filled with blank
\* cells; add_row with more cells than headers raises and leaves the rows.
C23_ShortRowsAcceptedLongRowsRejected ==
  [][/\ (op' = "add_row" /\ Len(args'.values) < self.num_columns) =>
          (pc' = "returned" /\ self'.rows = Append(self.rows, args'.values))
     /\ (op' = "add_row" /\ Len(args'.values) > self.num_columns) =>
          (pc' = "raised" /\ self'.rows = self.rows)
     /\ op' = "to_string" =>
          /\ pc' = "returned"
          /\ Len(self'.rows) = Len(self.rows)
          /\ \A j \in 1..Len(self.rows) :
               /\ Len(self'.rows[j]) = self.num_columns
               /\ SubSeq(self'.rows[j], 1, Len(self.rows[j])) = self.rows[j]
               /\ \A k \in (Len(self.rows[j]) + 1)..self.num_columns :
                    self'.rows[j][k] = blank_cell]_vars

\* The columns of the groups: every column but the one headed Total Values.
GroupColumns(t) == {i \in 1..Len(t.headers) : t.headers[i] # TotalValuesHeader}

\* The table has one Total Values column, the last one.
HasTotalValuesColumn(t) ==
  /\ t.headers # <<>>
  /\ GroupColumns(t) = 1..(Len(t.headers) - 1)

\* How many cells of the group columns hold the value.
GroupOccurrences(t, value) ==
  Cardinality({place \in (1..Len(t.rows)) \X GroupColumns(t) :
                 /\ place[2] <= Len(t.rows[place[1]])
                 /\ t.rows[place[1]][place[2]] = value})

\* C25: after add_header or add_row on a table with a Total Values column the
\* duplicates are the unique values found more than once in the group columns
\* (the cell of the Total Values column is not counted), the non-duplicates are
\* the other unique values, no value is in both, and the stored counts are the
\* sizes of the three collections.
C25_DuplicatesCountGroupColumnsOnly ==
  (op \in {"add_header", "add_row"} /\ pc = "returned" /\ HasTotalValuesColumn(self)) =>
    LET unique == Range(self.unique_values)
        twice  == {v \in unique : GroupOccurrences(self, v) > 1}
    IN /\ Range(keys(self.duplicates)) = twice
       /\ Range(self.non_duplicates) = unique \ twice
       /\ Range(keys(self.duplicates)) \cap Range(self.non_duplicates) = {}
       /\ Range(keys(self.duplicates)) \cup Range(self.non_duplicates) = unique
       /\ self.duplicates_count = Len(self.duplicates)
       /\ self.non_duplicates_count = Len(self.non_duplicates)
       /\ self.unique_values_count = Len(self.unique_values)

(* --------------- the RegexTable that create_table builds --------------- *)

\* TableOrganizer.gen_table on a RegexTable: add_header for every header,
\* then add_row for every row; the first call that raises ends it.
RECURSIVE gen_table_calls(_, _, _)
gen_table_calls(run, hdrs, table_rows) ==
  IF run.raised THEN run
  ELSE IF hdrs # <<>>
       THEN gen_table_calls(add_header(run.table, Head(hdrs)), Tail(hdrs), table_rows)
       ELSE IF table_rows # <<>>
            THEN gen_table_calls(add_row(run.table, Head(table_rows)), hdrs,
                                 Tail(table_rows))
            ELSE run

gen_table_statistics(table_rows, hdrs) ==
  gen_table_calls([raised |-> FALSE, error |-> "", table |-> RegexTable], hdrs, table_rows)

\* The table that the call of create_table added, with its statistics.
CreatedTable == gen_table_statistics(tables[1].rows, tables[1].headers).table

\* The shipment columns: behind the scan columns, before Total Values.
ShipmentColumns(t, scan) == (scan + 1)..(Len(t.headers) - 1)

\* In how many shipment columns the value is found.
ShipmentColumnCount(t, scan, value) ==
  Cardinality({c \in ShipmentColumns(t, scan) :
                 \E j \in 1..Len(t.rows) : t.rows[j][c] = value})

\* C24: the overlap of a table built by create_table holds exactly the values
\* found in more than one shipment column, each with the number of those
\* columns; the scan columns and the Total Values column are not counted.
C24_OverlapCountsShipmentColumns ==
  (op = "create_table" /\ pc = "returned" /\ tables # <<>>) =>
    LET t == CreatedTable
    IN Range(t.overlap) =
         {Item(value, ShipmentColumnCount(t, frame.invoice_scan, value)) :
            value \in {v \in Range(t.unique_values) :
                         ShipmentColumnCount(t, frame.invoice_scan, v) > 1}}

(* --------------------- the invariants of a built table ----------------- *)

\* The Universe: the values of the group columns that are no label.
GroupValues(t) ==
  {t.rows[j][c] : j \in 1..Len(t.rows), c \in GroupColumns(t)}
    \ Range(remove_strings)

\* The table is as a build leaves it: the last column is Total Values, every
\* row has a cell for every header, there is one row for each value of the
\* Universe, in its order, with the value in the Total Values cell, and the
\* statistics are those of gen_table on these headers and rows.
BuildInvariants(t) ==
  /\ HasTotalValuesColumn(t)
  /\ \A j \in 1..Len(t.rows) : Len(t.rows[j]) = Len(t.headers)
  /\ [j \in 1..Len(t.rows) |-> t.rows[j][Len(t.headers)]] = SortedStr(GroupValues(t))
  /\ LET fresh == gen_table_statistics(t.rows, t.headers).table
     IN /\ t.duplicates = fresh.duplicates
        /\ t.non_duplicates = fresh.non_duplicates
        /\ t.unique_values = fresh.unique_values
        /\ t.overlap = fresh.overlap

\* C21: when edit was called for a cell of a group column in a data row of a
\* table that satisfies the invariants of a build, and has returned, the
\* table satisfies them again: the Universe is the set of values of the group columns, there is
\* one row for each of its values, in order, with the value in the Total
\* Values cell, and the statistics are those of a fresh build.
C21_EditRestoresBuildInvariants ==
  [][(/\ op' = "edit"
      /\ pc' = "returned"
      /\ args'.row >= 1
      /\ args'.col + 1 \in GroupColumns(self)
      /\ BuildInvariants(self)) => BuildInvariants(self')]_vars

(* --------------- Table: set_iloc and the rebuild of the df -------------- *)

\* Table._create_series on the cells of one column, with sort: the cells as
\* integers, if int() takes them all; else the cells that pass the filter
\* and are numeric for str.isnumeric().  The distinct integers in order, as
\* strings.
_create_series_of_cells(data, filter_values) ==
  LET cells == Range(data)
      first_try == {int_(cell) : cell \in {c \in cells : int_converts(c)}}
      values == Range(filter_list(data, filter_values))
      second_try == {ToInt(val) : val \in {v \in values : IsNumeric(str_(v))}}
      sorted_list == SortedInts(IF \A cell \in cells : int_converts(cell)
                                THEN first_try ELSE second_try)
  IN [i \in 1..Len(sorted_list) |-> str_int(sorted_list[i])]

\* Table.align_series_list on the series of a df: the index is made of the
\* values of all series that pass the filter, in numeric order, and every
\* series is reindexed on it.
aligned_df(columns, series, filter_values) ==
  LET unique_values == UNION {Range(series[i]) : i \in 1..Len(series)}
      kept == filter_list(list_of_set(unique_values), filter_values)
      sorted_list == SortedInts({int_(kept[i]) : i \in 1..Len(kept)})
      index == [i \in 1..Len(sorted_list) |-> str_int(sorted_list[i])]
  IN [columns |-> columns,
      index |-> index,
      values |-> [r \in 1..Len(index) |->
                    [c \in 1..Len(series) |->
                       IF InList(index[r], series[c]) THEN index[r] ELSE NaN]]]

\* Table.reindex_df: the cells of every column are filtered, made a series,
\* and the series are aligned.
reindex_df(df, filter_values) ==
  LET column(c) == [r \in 1..Len(df.values) |-> df.values[r][c]]
      series == [c \in 1..Len(df.columns) |->
                   _create_series_of_cells(filter_list(column(c), filter_values),
                                           filter_values)]
  IN aligned_df(df.columns, series, filter_values)

\* Table.hard_refresh
hard_refresh(table) == [table EXCEPT !.df = reindex_df(table.df, table.filter_values)]

\* SproutsTable.update_table(hard=True)
update_table_hard(table, in_place) ==
  [table EXCEPT !.df = update_table(reindex_df(table.df, table.filter_values),
                                    table.num_scan_col, in_place)]

\* SproutsTable.update_scan_col_count: the count is taken as it is given.
update_scan_col_count(table, new_count, in_place) ==
  update_table_hard([table EXCEPT !.num_scan_col = new_count], in_place)

\* df.iloc[row, col] = cell; a position that is not in the df raises
\* IndexError.
iloc_raises(df, row, col) ==
  ~(valid_index(row, Len(df.index)) /\ valid_index(col, Len(df.columns)))

iloc_assign(df, row, col, cell) ==
  [df EXCEPT !.values[position(row, Len(df.index))][position(col, Len(df.columns))] = cell]

\* Table.set_iloc without its hard refresh.
Table_set_iloc_without_refresh(table, row, col, cell) ==
  IF iloc_raises(table.df, row, col) THEN table
  ELSE [table EXCEPT !.df = iloc_assign(table.df, row, col, cell)]

\* Table.set_iloc: the cell is set and the df is rebuilt; IndexError is
\* logged and leaves the df.
Table_set_iloc(table, row, col, cell) ==
  IF iloc_raises(table.df, row, col) THEN table
  ELSE hard_refresh([table EXCEPT !.df = iloc_assign(table.df, row, col, cell)])

\* SproutsTable.set_iloc: Table.set_iloc, then update_table(hard=True).
SproutsTable_set_iloc(table, row, col, cell, in_place) ==
  update_table_hard(Table_set_iloc(table, row, col, cell), in_place)

\* The cells that df.iloc[row, col] = int(value) can leave: the integer, and
\* in a column of empty cells only, which pandas may hold as floats, the
\* float of it.  The integer is kept as its str(), which is what filter_list
\* and stringify_list take of it, as int() of both is the same.
assigned_cells(df, col, value) ==
  IF /\ valid_index(col, Len(df.columns))
     /\ \A r \in 1..Len(df.values) : df.values[r][position(col, Len(df.columns))] = NaN
  THEN {str_int(value), str_float(value)}
  ELSE {str_int(value)}

(* ------------------------ Table as a state machine --------------------- *)

MaxRefreshColumns == 2

\* The sections of the files: one or two columns of the numbers 2 and 10.
RefreshSections ==
  UNION {[1..n -> (SUBSET TableValues) \ {{}}] : n \in 1..MaxRefreshColumns}

\* The values handed to set_iloc: a new number, a number of the file that
\* starts with "1", and a negative number.
NewValues == {7, 10, -5}

\* The counts handed to update_scan_col_count, among them a negative one
\* and one above the number of columns.
ScanCounts == (-1)..(MaxRefreshColumns + 1)

\* A Table as Table.__init__ leaves it.
PlainTable(sections, filter_values) ==
  [class |-> "Table",
   df |-> Table(sections, filter_values).df,
   filter_values |-> filter_values,
   num_scan_col |-> 0]

\* What the callers did since the table was made: whether a cell or the
\* number of scan columns was set.  in_place says whether the fill of
\* update_table reaches the df in this build of pandas.
Calls(edited, in_place) == [edited |-> edited, in_place |-> in_place]

\* A new Table or SproutsTable.
InitTable ==
  /\ pc = "returned"
  /\ args = NoArgs
  /\ ret = NoReturn
  /\ log = <<>>
  /\ rows = <<>> /\ nested = FALSE /\ headers = <<>> /\ invoice_scan = 0 /\ max_rows = 0
  /\ tables = <<>>
  /\ \E in_place \in BOOLEAN :
       /\ frame = Calls(FALSE, in_place)
       /\ \/ /\ op = "Table"
             /\ self \in {PlainTable(s, f) : s \in RefreshSections, f \in FilterValues}
          \/ /\ op = "SproutsTable"
             /\ self \in {SproutsTable(s, k, f, in_place) :
                            s \in RefreshSections, k \in 0..1, f \in FilterValues}

\* The call on the table ends.
FinishOnDf(name, input, table, edited, entries) ==
  /\ op' = name
  /\ args' = input
  /\ self' = table
  /\ frame' = Calls(edited, frame.in_place)
  /\ log' = log \o entries
  /\ UNCHANGED <<pc, ret, rows, nested, headers, invoice_scan, max_rows, tables>>

\* set_iloc(row, col, value), once on a table.
SetIloc ==
  /\ ~frame.edited
  /\ \E row \in EditRows, col \in EditColumns, value \in NewValues :
       \E cell \in assigned_cells(self.df, col, value) :
          FinishOnDf("set_iloc", [row |-> row, col |-> col, value |-> value],
                     IF self.class = "Table"
                     THEN Table_set_iloc(self, row, col, cell)
                     ELSE SproutsTable_set_iloc(self, row, col, cell, frame.in_place),
                     TRUE,
                     IF iloc_raises(self.df, row, col)
                     THEN <<LogEntry("error", "IndexError")>> ELSE <<>>)

\* update_scan_col_count(new_count), once on a SproutsTable.
UpdateScanColCount ==
  /\ self.class = "SproutsTable"
  /\ ~frame.edited
  /\ \E new_count \in ScanCounts :
       FinishOnDf("update_scan_col_count", [new_count |-> new_count],
                  update_scan_col_count(self, new_count, frame.in_place), TRUE, <<>>)

\* hard_refresh() on a Table or on a SproutsTable, which inherits it; the
\* call that was made before it is kept with it.
HardRefresh ==
  FinishOnDf("hard_refresh", [after |-> op], hard_refresh(self), frame.edited, <<>>)

\* update_table(hard=True) on a SproutsTable.
UpdateTable ==
  /\ self.class = "SproutsTable"
  /\ FinishOnDf("update_table", [hard |-> TRUE, after |-> op],
                update_table_hard(self, frame.in_place), frame.edited, <<>>)

NextTable == SetIloc \/ UpdateScanColCount \/ HardRefresh \/ UpdateTable

SpecTable == InitTable /\ [][NextTable]_vars

(* --------------------------- reading a Table --------------------------- *)

\* The name is one of the two rebuilds.
IsRebuild(name) == name \in {"hard_refresh", "update_table"}

\* The name is the rebuild of the table's class: hard_refresh for a Table,
\* update_table(hard=True) for a SproutsTable.
IsOwnRebuild(name, table) ==
  \/ table.class = "Table" /\ name = "hard_refresh"
  \/ table.class = "SproutsTable" /\ name = "update_table"

\* The table is as its constructor left it.
IsNew == op \in {"Table", "SproutsTable"}

====
